---- MODULE Spec2Model ----
(***************************************************************************)
(* Model of the @defer block runtime of packages/core/src/defer/           *)
(* instructions.ts: the per-block static details (TDeferBlockDetails),     *)
(* the per-instance details (LDeferBlockDetails), the state transition     *)
(* engine (renderDeferBlockState and its two apply functions), the         *)
(* dependency loader (triggerResourceLoading) and the trigger entry        *)
(* points (triggerDeferBlock, triggerPrefetching).                         *)
(* Further sections model the compiler's parser of `on` and `when`         *)
(* triggers (packages/compiler/src/render3/r3_deferred_triggers.ts), the   *)
(* devtools DirectiveExplorerComponent and the router's                    *)
(* ChildrenOutletContexts; each has its own specification.                 *)
(*                                                                         *)
(* A nullable value is a sequence: <<>> is null, <<v>> is the value v.     *)
(***************************************************************************)
EXTENDS Integers, Sequences, FiniteSets, TLC

VARIABLES
    cfg,          \* static part of TDeferBlockDetails and of the injector
    inst,         \* instance -> LDeferBlockDetails, its LContainer and LView
    tDetails,     \* mutable part of TDeferBlockDetails, shared by instances
    registry,     \* directive and pipe registries of the primary template
    timers,       \* the timer scheduler's queue, ordered by invokeAt
    now,          \* Date.now()
    inflight,     \* load closures whose promise has not settled yet
    subs,         \* .then() reactions registered on the loading promise
    pendingTasks, \* PendingTasks: the ids of the outstanding tasks
    taskCtr,      \* number of ids PendingTasks.add() has handed out
    loaderCalls,  \* number of invocations of dependencyResolverFn
    errors,       \* errors handed to handleError
    ret,          \* what the last triggerResourceLoading call returned
    parser,       \* the compiler's trigger parsing of one @defer block
    explorer,     \* DirectiveExplorerComponent and its collaborators
    contexts,     \* ChildrenOutletContexts and the context objects it made
    migration,    \* OutputMigration: programs, analysis units, merge, migrate
    names         \* UniqueNamesGenerator and the locals of the scopes

vars == <<cfg, inst, tDetails, registry, timers, now, inflight, subs,
          pendingTasks, taskCtr, loaderCalls, errors, ret,
          parser, explorer, contexts, migration, names>>

\* The variables of the defer runtime, and those of the other programs.
runtimeVars == <<cfg, inst, tDetails, registry, timers, now, inflight, subs,
                 pendingTasks, taskCtr, loaderCalls, errors, ret>>

otherVars == <<parser, explorer, contexts, migration, names>>

(***************************** bounds *************************************)
MaxTime == 3            \* the clock runs from 0 to MaxTime
PlaceholderMinimum == 1 \* @placeholder (minimum ...), when the block has one
LoadingMinimum == 1     \* @loading (minimum ...), when the block has one
LoadingAfter == 1       \* @loading (after ...), when the block has one
MaxDeps == 2            \* dependency promises of one load
MaxSubs == 2            \* reactions waiting on the loading promise

(************************** program constants *****************************)
\* DeferBlockInternalState.Initial and DeferBlockState (./interfaces), with the
\* numbers the comment of isValidStateChange gives them.
Initial == -1
Placeholder == 0
Loading == 1
Complete == 2
Error == 3

Null == <<>>
Some(v) == <<v>>

DeferBlockStates == {Placeholder, Loading, Complete, Error}
\* The instances of the block: they share cfg, tDetails and registry.
Instances == {1, 2}

(***************************** helpers ************************************)
getLoadingBlockAfter == cfg.loadingAfter

getMinimumDurationForState(currentState) ==
    IF currentState = Placeholder THEN cfg.placeholderMinimum
    ELSE IF currentState = Loading THEN cfg.loadingMinimum
    ELSE Null

getTemplateIndexForState(newState) ==
    CASE newState = Complete -> Some("primary")
      [] newState = Loading -> cfg.loadingTmplIndex
      [] newState = Error -> cfg.errorTmplIndex
      [] newState = Placeholder -> cfg.placeholderTmplIndex
      [] OTHER -> Null

isPlatformBrowser == cfg.platformBrowser

shouldTriggerDeferBlock ==
    IF cfg.behaviorManual THEN FALSE ELSE isPlatformBrowser

isDestroyed(w, i) == w.inst[i].destroyed

Max(a, b) == IF a < b THEN b ELSE a

\* A callback is a closure, known by a name: a new one takes the least name
\* that no queued timer and no stored cleanup function refers to.
newCallback(w) ==
    LET used == {w.timers[j].id : j \in 1..Len(w.timers)}
                \cup {w.inst[i].loadingAfterCleanupFn[1] :
                        i \in {x \in DOMAIN w.inst :
                                 w.inst[x].loadingAfterCleanupFn # Null}}
    IN  CHOOSE n \in 1..(Cardinality(used) + 1) :
            n \notin used /\ \A m \in 1..(n - 1) : m \in used

\* The timer scheduler keeps its queue ordered by invokeAt; a timer armed for
\* the same instant as an older one runs after it.
scheduleTimerTrigger(w, timeout, i) ==
    LET t == [id |-> newCallback(w), inst |-> i, at |-> now + timeout]
        k == Cardinality({j \in 1..Len(w.timers) : w.timers[j].at <= t.at})
    IN  [w EXCEPT !.timers = SubSeq(@, 1, k) \o <<t>> \o SubSeq(@, k + 1, Len(@))]

\* The cleanup function scheduleTimerTrigger returns: scheduler.remove(callback).
removeTimer(w, id) ==
    [w EXCEPT !.timers = SelectSeq(@, LAMBDA t : t.id # id)]

\* The LContainer's views, as the sequence of the templates they render.
removeLViewFromLContainer(views, index) ==
    IF index <= Len(views)
    THEN SubSeq(views, 1, index - 1) \o SubSeq(views, index + 1, Len(views))
    ELSE views

addLViewToLContainer(views, lView, index) ==
    SubSeq(views, 1, index - 1) \o <<lView>> \o SubSeq(views, index, Len(views))

(********************** state transition engine ***************************)
isValidStateChangeToAnyOther(currentState, newState) == currentState # newState

isValidStateChangeOrNone(currentState, newState) == currentState <= newState

isValidStateChange(currentState, newState) == currentState < newState

applyDeferBlockStateKeepingViews(w, i, newState) ==
    LET stateTmplIndex == getTemplateIndexForState(newState)
    IN  IF stateTmplIndex # Null
        THEN [w EXCEPT !.inst[i].state = newState,
                       !.inst[i].views = addLViewToLContainer(@, stateTmplIndex[1], 1),
                       !.inst[i].heldUntil = Null,
                       !.inst[i].loadingAt = IF newState >= Loading THEN Null ELSE @]
        ELSE w

\* The state is assigned and the old view removed without asking whether the
\* state has a template.
applyDeferBlockStateUnguarded(w, i, newState) ==
    LET stateTmplIndex == getTemplateIndexForState(newState)
        removed == removeLViewFromLContainer(w.inst[i].views, 1)
    IN  [w EXCEPT !.inst[i].state = newState,
                  !.inst[i].views = IF stateTmplIndex # Null
                                    THEN addLViewToLContainer(removed, stateTmplIndex[1], 1)
                                    ELSE removed,
                  !.inst[i].heldUntil = Null,
                  !.inst[i].loadingAt = IF newState >= Loading THEN Null ELSE @]

applyDeferBlockState(w, i, newState) ==
    LET stateTmplIndex == getTemplateIndexForState(newState)
    IN  IF stateTmplIndex # Null
        THEN [w EXCEPT !.inst[i].state = newState,
                       !.inst[i].views = addLViewToLContainer(
                                           removeLViewFromLContainer(@, 1),
                                           stateTmplIndex[1], 1),
                       !.inst[i].heldUntil = Null,
                       !.inst[i].loadingAt = IF newState >= Loading THEN Null ELSE @]
        ELSE w

scheduleDeferBlockUpdate(w, i, timeout) == scheduleTimerTrigger(w, timeout, i)

\* newState > DeferBlockState.Loading && inLoadingAfterPhase
cancelsLoadingAfterTimer(newState, inLoadingAfterPhase) ==
    newState > Loading /\ inLoadingAfterPhase

\* heldUntil is history (see noteRequest): forgotten once its time has come.
elapsedHold(heldUntil) ==
    IF heldUntil # Null /\ heldUntil[1] <= now THEN Null ELSE heldUntil

applyDeferBlockStateWithScheduling(w, i, newState) ==
    LET L == w.inst[i]
    IN  IF L.frozenUntil = Null \/ L.frozenUntil[1] <= now
        THEN LET w0 == [w EXCEPT !.inst[i].frozenUntil = Null,
                                 !.inst[i].heldUntil = elapsedHold(@)]
                 loadingAfter == getLoadingBlockAfter
                 inLoadingAfterPhase == L.loadingAfterCleanupFn # Null
             IN  IF newState = Loading /\ loadingAfter # Null /\ ~inLoadingAfterPhase
                 THEN LET w1 == [w0 EXCEPT !.inst[i].next = Some(newState)]
                          w2 == scheduleDeferBlockUpdate(w1, i, loadingAfter[1])
                      IN  [w2 EXCEPT !.inst[i].loadingAfterCleanupFn =
                                         Some(newCallback(w1))]
                 ELSE LET w1 == IF cancelsLoadingAfterTimer(newState,
                                                            inLoadingAfterPhase)
                                THEN [removeTimer(w0, L.loadingAfterCleanupFn[1])
                                        EXCEPT !.inst[i].loadingAfterCleanupFn = Null,
                                               !.inst[i].next = Null]
                                ELSE w0
                          w2 == applyDeferBlockState(w1, i, newState)
                          duration == getMinimumDurationForState(newState)
                      IN  IF duration # Null
                          THEN scheduleDeferBlockUpdate(
                                 [w2 EXCEPT !.inst[i].frozenUntil = Some(now + duration[1]),
                                            !.inst[i].heldUntil = Some(now + duration[1])],
                                 i, duration[1])
                          ELSE w2
        ELSE [w EXCEPT !.inst[i].next = Some(newState)]

\* History of the calls, not a field of LDeferBlockDetails: the greatest state
\* asked of the live instance so far, the greatest one among the states that
\* have a sub-template, and, for a block with an `after` delay that shows
\* nothing past Placeholder yet, the time of the first request for Loading.
\* A second piece of history is heldUntil: the end of the minimum duration of
\* the mounted state, as computed when it was mounted, which no timer callback
\* clears before that time.
noteRequest(w, i, newState) ==
    [w EXCEPT !.inst[i].requested = Max(@, newState),
              !.inst[i].requestedTmpl =
                  IF getTemplateIndexForState(newState) # Null
                  THEN Max(@, newState) ELSE @,
              !.inst[i].loadingAt =
                  IF /\ newState = Loading /\ @ = Null
                     /\ w.inst[i].state < Loading /\ getLoadingBlockAfter # Null
                  THEN Some(now) ELSE @]

rendersOnDestroyedView(w, i) == FALSE

\* if (isDestroyed(hostLView)) return;
hostViewDestroyed(w, i) == isDestroyed(w, i)

renderDeferBlockState(w0, i, newState, skipTimerScheduling) ==
    IF hostViewDestroyed(w0, i) THEN w0
    ELSE
    LET w == noteRequest(w0, i, newState)
        L == w.inst[i]
        currentState == L.state
    IN  IF /\ isValidStateChange(currentState, newState)
           /\ isValidStateChange(IF L.next # Null THEN L.next[1] ELSE -1, newState)
        THEN LET needsScheduling ==
                     /\ ~skipTimerScheduling
                     /\ isPlatformBrowser
                     /\ \/ getLoadingBlockAfter # Null
                        \/ getMinimumDurationForState(Loading) # Null
                        \/ /\ getMinimumDurationForState(Placeholder) # Null
                           /\ getMinimumDurationForState(Placeholder)[1] # 0
             IN  IF needsScheduling
                 THEN applyDeferBlockStateWithScheduling(w, i, newState)
                 ELSE applyDeferBlockState(w, i, newState)
        ELSE w

\* A callback that ends the freeze and forgets what was buffered.
callbackDroppingNext(w, i) ==
    [w EXCEPT !.inst[i].frozenUntil = Null, !.inst[i].next = Null,
              !.inst[i].heldUntil = elapsedHold(@)]

\* The callback scheduleDeferBlockUpdate hands to the timer scheduler.
deferBlockUpdateCallback(w, i) ==
    LET nextState == w.inst[i].next
        w1 == [w EXCEPT !.inst[i].frozenUntil = Null, !.inst[i].next = Null,
                        !.inst[i].heldUntil = elapsedHold(@)]
    IN  IF nextState # Null
        THEN renderDeferBlockState(w1, i, nextState[1], FALSE)
        ELSE w1

renderPlaceholder(w, i) == renderDeferBlockState(w, i, Placeholder, FALSE)

(************************ trigger cleanup functions ***********************)
\* A cleanup function is known by a name: "removeLViewOnDestroy" is the one
\* ɵɵdefer stores (it takes cleanupTriggersFn off the LView's destroy hooks),
\* any other is the name of the listener it unregisters.
invokeCleanupFn(L, cleanupFn) ==
    IF cleanupFn = "removeLViewOnDestroy"
    THEN [L EXCEPT !.onDestroy = FALSE]
    ELSE [L EXCEPT !.listeners = @ \ {cleanupFn}]

RECURSIVE invokeEach(_, _)
invokeEach(L, cleanupFns) ==
    IF cleanupFns = <<>> THEN L
    ELSE invokeEach(invokeCleanupFn(L, Head(cleanupFns)), Tail(cleanupFns))

cleanupFnsKey(type) ==
    IF type = "Regular" THEN "triggerCleanupFns" ELSE "prefetchCleanupFns"

storeTriggerCleanupFn(w, type, i, cleanupFn) ==
    [w EXCEPT !.inst[i][cleanupFnsKey(type)] =
                  IF @ = Null THEN Some(<<cleanupFn>>)
                  ELSE Some(Append(@[1], cleanupFn))]

invokeTriggerCleanupFns(w, type, i) ==
    LET cleanupFns == w.inst[i][cleanupFnsKey(type)]
    IN  IF cleanupFns # Null
        THEN [w EXCEPT !.inst[i] =
                 [invokeEach(@, cleanupFns[1]) EXCEPT ![cleanupFnsKey(type)] = Null]]
        ELSE w

invokeAllTriggerCleanupFns(w, i) ==
    invokeTriggerCleanupFns(invokeTriggerCleanupFns(w, "Prefetch", i), "Regular", i)

(************************** dependency loader *****************************)
\* What Promise.allSettled delivers: one status per dependency promise of
\* dependencyResolverFn().
DepResults == UNION {[1..n -> {"fulfilled", "rejected"}] : n \in 0..MaxDeps}

\* What the k-th dependency of the block is, which its compiled dependency
\* list fixes: a component or directive, a pipe, or neither, in turn.
getComponentOrDirectiveDef(k) == k % 3 = 1

getPipeDef(k) == k % 3 = 2

\* The same loop, failing only when the last result is rejected.
collectDepsLastOnly(res, k, acc) ==
    [acc EXCEPT !.failed = Len(res) > 0 /\ res[Len(res)] # "fulfilled"]

\* The loop of the allSettled reaction: it stops at the first rejected result.
RECURSIVE collectDeps(_, _, _)
collectDeps(res, k, acc) ==
    IF k > Len(res) THEN acc
    ELSE IF res[k] # "fulfilled" THEN [acc EXCEPT !.failed = TRUE]
    ELSE IF getComponentOrDirectiveDef(k)
         THEN collectDeps(res, k + 1, [acc EXCEPT !.directiveDefs = Append(@, k)])
    ELSE IF getPipeDef(k)
         THEN collectDeps(res, k + 1, [acc EXCEPT !.pipeDefs = Append(@, k)])
    ELSE collectDeps(res, k + 1, acc)

addDepsToRegistry(currentDeps, newDeps) == currentDeps \o newDeps

pendingTasksAdd(w) ==
    [w EXCEPT !.taskCtr = @ + 1, !.pendingTasks = @ \cup {w.taskCtr + 1}]

pendingTasksRemove(w, taskId) ==
    [w EXCEPT !.pendingTasks = @ \ {taskId}]

\* A promise is <<"loading", taskId>>, the promise of the load that holds the
\* pending task taskId, or <<"resolved", 0>>, a fresh Promise.resolve().

\* A guard that lets a settled load start again.
loadingInProgressOnly(w) == w.tDetails.loadingState = "IN_PROGRESS"

\* The guard of triggerResourceLoading: nothing to do unless NOT_STARTED.
loadingAlreadyStarted(w) == w.tDetails.loadingState # "NOT_STARTED"

alwaysFreshPromise(w) == <<"resolved", 0>>

\* tDetails.loadingPromise ?? Promise.resolve()
loadingPromiseOrResolved(w) ==
    IF w.tDetails.loadingPromise # Null
    THEN w.tDetails.loadingPromise[1]
    ELSE <<"resolved", 0>>

triggerResourceLoading(w, i) ==
    IF loadingAlreadyStarted(w)
    THEN [w EXCEPT !.ret = loadingPromiseOrResolved(w)]
    ELSE LET w0 == [w EXCEPT !.tDetails.loadingState = "IN_PROGRESS"]
             w1 == invokeTriggerCleanupFns(w0, "Prefetch", i)
             w2 == pendingTasksAdd(w1)
             taskId == w2.taskCtr
             promise == <<"loading", taskId>>
             dependenciesFn == cfg.dependencyResolverFn
             w3 == [w2 EXCEPT !.tDetails.loadingPromise = Some(promise),
                              !.inflight = @ \cup {[taskId |-> taskId,
                                                    withFn |-> dependenciesFn]},
                              !.ret = promise]
         IN  IF ~dependenciesFn THEN w3
             ELSE [w3 EXCEPT !.loaderCalls = @ + 1]

loadingResolvedWithoutFnKeepingTask(w, taskId) ==
    [w EXCEPT !.tDetails.loadingPromise = Null,
              !.tDetails.loadingState = "COMPLETE"]

\* The reaction of Promise.resolve().then(...) when there is no loader function.
loadingResolvedWithoutFn(w, taskId) ==
    pendingTasksRemove(
        [w EXCEPT !.tDetails.loadingPromise = Null,
                  !.tDetails.loadingState = "COMPLETE"],
        taskId)

reportAlways == TRUE

\* tDetails.errorTmplIndex === null
noErrorBlock == cfg.errorTmplIndex = Null

\* The reaction of Promise.allSettled(dependenciesFn()).then(...).
loadingSettled(w, taskId, res) ==
    LET c == collectDeps(res, 1, [failed |-> FALSE, directiveDefs |-> <<>>,
                                  pipeDefs |-> <<>>])
        w1 == pendingTasksRemove(
                [w EXCEPT !.tDetails.loadingPromise = Null], taskId)
    IN  IF c.failed
        THEN LET w2 == [w1 EXCEPT !.tDetails.loadingState = "FAILED"]
             IN  IF noErrorBlock
                 THEN [w2 EXCEPT !.errors = Append(@, "DEFER_LOADING_FAILED")]
                 ELSE w2
        ELSE LET w2 == [w1 EXCEPT !.tDetails.loadingState = "COMPLETE"]
                 w3 == IF Len(c.directiveDefs) > 0
                       THEN [w2 EXCEPT
                               !.registry.directive = addDepsToRegistry(@, c.directiveDefs),
                               !.tDetails.providers = Some(c.directiveDefs)]
                       ELSE w2
             IN  IF Len(c.pipeDefs) > 0
                 THEN [w3 EXCEPT !.registry.pipe = addDepsToRegistry(@, c.pipeDefs)]
                 ELSE w3

triggerPrefetchingRendersToo(w, i) ==
    IF shouldTriggerDeferBlock
    THEN triggerResourceLoading(renderDeferBlockState(w, i, Loading, FALSE), i)
    ELSE w

triggerPrefetching(w, i) ==
    IF shouldTriggerDeferBlock THEN triggerResourceLoading(w, i) ELSE w

\* tDetails.loadingPromise.then(...): the reaction is queued on the promise.
renderDeferStateAfterResourceLoading(w, i) ==
    [w EXCEPT !.subs = Append(@, i)]

afterLoadingRendersComplete(w, i) == renderDeferBlockState(w, i, Complete, FALSE)

\* The reaction itself, run once the loading promise has settled.
afterResourceLoading(w, i) ==
    IF w.tDetails.loadingState = "COMPLETE"
    THEN renderDeferBlockState(w, i, Complete, FALSE)
    ELSE IF w.tDetails.loadingState = "FAILED"
    THEN renderDeferBlockState(w, i, Error, FALSE)
    ELSE w

cleanupOfPrefetchOnly(w, i) == invokeTriggerCleanupFns(w, "Prefetch", i)

\* Defer block is triggered, cleanup all registered trigger functions.
cleanupOnTrigger(w, i) == invokeAllTriggerCleanupFns(w, i)

\* triggered: the instance got past the shouldTriggerDeferBlock check (history
\* of the calls, not a field of LDeferBlockDetails).
triggerDeferBlock(w0, i) ==
    IF ~shouldTriggerDeferBlock THEN w0
    ELSE LET w == cleanupOnTrigger(
                       [w0 EXCEPT !.inst[i].triggered = TRUE], i) IN
         CASE w.tDetails.loadingState = "NOT_STARTED" ->
                LET w1 == renderDeferBlockState(w, i, Loading, FALSE)
                    w2 == triggerResourceLoading(w1, i)
                IN  IF w2.tDetails.loadingState = "IN_PROGRESS"
                    THEN renderDeferStateAfterResourceLoading(w2, i)
                    ELSE w2
           [] w.tDetails.loadingState = "IN_PROGRESS" ->
                renderDeferStateAfterResourceLoading(
                    renderDeferBlockState(w, i, Loading, FALSE), i)
           [] w.tDetails.loadingState = "COMPLETE" ->
                renderDeferBlockState(w, i, Complete, FALSE)
           [] w.tDetails.loadingState = "FAILED" ->
                renderDeferBlockState(w, i, Error, FALSE)
           [] OTHER -> w

(************************** trigger instructions **************************)
placeholderAlwaysFirst == TRUE

\* !shouldTriggerDeferBlock(injector) || tDetails.loadingTmplIndex === null
placeholderFirst == ~shouldTriggerDeferBlock \/ cfg.loadingTmplIndex = Null

deferOnImmediate(w, i) ==
    triggerDeferBlock(IF placeholderFirst THEN renderPlaceholder(w, i) ELSE w, i)

\* The listeners stand for the trigger kinds: "onTimer" for `on idle` and
\* `on timer` (a callback in a scheduler, dropped once it has run), "onHover"
\* for `on hover`, `on interaction` and `on viewport` (a DOM listener, kept
\* until its cleanup function runs), and their prefetch variants.
RegularListeners == {"onTimer", "onHover"}
PrefetchListeners == {"prefetchOnTimer", "prefetchOnHover"}
SchedulerListeners == {"onTimer", "prefetchOnTimer"}
Listeners == RegularListeners \cup PrefetchListeners

\* scheduleFn(callback, lView): the callback is handed to the scheduler.
scheduleFn(w, i, callback) ==
    [w EXCEPT !.inst[i].listeners = @ \cup {callback}]

serverSchedulesToo == TRUE

\* isPlatformBrowser(lView[INJECTOR]) in the two scheduleDelayed functions
browserOnlyScheduling == isPlatformBrowser

scheduleDelayedTrigger(w0, i) ==
    LET w == renderPlaceholder(w0, i)
    IN  IF browserOnlyScheduling
        THEN storeTriggerCleanupFn(scheduleFn(w, i, "onTimer"),
                                   "Regular", i, "onTimer")
        ELSE w

prefetchAnyTime(w) == TRUE

\* tDetails.loadingState === DeferDependenciesLoadingState.NOT_STARTED, the
\* test of the prefetch instructions
prefetchNotStarted(w) == w.tDetails.loadingState = "NOT_STARTED"

scheduleDelayedPrefetching(w, i) ==
    IF browserOnlyScheduling
    THEN IF prefetchNotStarted(w)
         THEN storeTriggerCleanupFn(scheduleFn(w, i, "prefetchOnTimer"),
                                    "Prefetch", i, "prefetchOnTimer")
         ELSE w
    ELSE w

\* registerDomTrigger: the listener is registered on the trigger element and
\* its cleanup function stored.
registerDomTrigger(w, i, callback, type) ==
    storeTriggerCleanupFn(scheduleFn(w, i, callback), type, i, callback)

deferOnHover(w, i) ==
    registerDomTrigger(renderPlaceholder(w, i), i, "onHover", "Regular")

deferPrefetchOnHover(w, i) ==
    IF prefetchNotStarted(w)
    THEN registerDomTrigger(w, i, "prefetchOnHover", "Prefetch")
    ELSE w

\* A registered listener runs its callback.
listenerCallback(w, i, callback) ==
    LET w1 == IF callback \in SchedulerListeners
              THEN [w EXCEPT !.inst[i].listeners = @ \ {callback}]
              ELSE w
    IN  IF callback \in RegularListeners
        THEN triggerDeferBlock(w1, i)
        ELSE triggerPrefetching(w1, i)

whenTrueEvenAfterLoading(renderedState) == TRUE

\* renderedState === Initial || renderedState === Placeholder
whenTrueTriggers(renderedState) == renderedState \in {Initial, Placeholder}

\* rawValue is "true" or "false", its truthiness; the binding slot starts as
\* NO_CHANGE.
deferWhen(w0, i, rawValue) ==
    IF w0.inst[i].whenBinding = rawValue THEN w0
    ELSE LET w == [w0 EXCEPT !.inst[i].whenBinding = rawValue]
             renderedState == w.inst[i].state
         IN  IF rawValue = "false" /\ renderedState = Initial
             THEN renderPlaceholder(w, i)
             ELSE IF rawValue = "true" /\ whenTrueTriggers(renderedState)
             THEN triggerDeferBlock(w, i)
             ELSE w

deferPrefetchWhen(w0, i, rawValue) ==
    IF w0.inst[i].prefetchWhenBinding = rawValue THEN w0
    ELSE LET w == [w0 EXCEPT !.inst[i].prefetchWhenBinding = rawValue]
         IN  IF rawValue = "true" /\ w.tDetails.loadingState = "NOT_STARTED"
             THEN triggerPrefetching(w, i)
             ELSE w

(****************************** the machine *******************************)
World ==
    [inst |-> inst, tDetails |-> tDetails, registry |-> registry,
     timers |-> timers, inflight |-> inflight,
     subs |-> subs, pendingTasks |-> pendingTasks, taskCtr |-> taskCtr,
     loaderCalls |-> loaderCalls, errors |-> errors, ret |-> ret]

Commit(w) ==
    /\ inst' = w.inst
    /\ tDetails' = w.tDetails
    /\ registry' = w.registry
    /\ timers' = w.timers
    /\ inflight' = w.inflight
    /\ subs' = w.subs
    /\ pendingTasks' = w.pendingTasks
    /\ taskCtr' = w.taskCtr
    /\ loaderCalls' = w.loaderCalls
    /\ errors' = w.errors
    /\ ret' = w.ret
    /\ UNCHANGED <<cfg, now>>
    /\ UNCHANGED otherVars

\* A block's configuration: `after` and `minimum` are parameters of the
\* @loading and @placeholder blocks, so they come only with their template.
Configs ==
    {c \in [placeholderTmplIndex : {Null, Some("placeholder")},
            loadingTmplIndex : {Null, Some("loading")},
            errorTmplIndex : {Null, Some("error")},
            placeholderMinimum : {Null, Some(PlaceholderMinimum)},
            loadingMinimum : {Null, Some(LoadingMinimum)},
            loadingAfter : {Null, Some(LoadingAfter)},
            dependencyResolverFn : BOOLEAN,
            platformBrowser : BOOLEAN,
            behaviorManual : BOOLEAN] :
        /\ c.placeholderTmplIndex = Null => c.placeholderMinimum = Null
        /\ c.loadingTmplIndex = Null =>
              c.loadingMinimum = Null /\ c.loadingAfter = Null}

InitLDetails ==
    [next |-> Null, state |-> Initial, frozenUntil |-> Null,
     loadingAfterCleanupFn |-> Null, views |-> <<>>, destroyed |-> FALSE,
     requested |-> Initial, requestedTmpl |-> Initial, triggered |-> FALSE,
     loadingAt |-> Null, heldUntil |-> Null,
     triggerCleanupFns |-> Some(<<"removeLViewOnDestroy">>),
     prefetchCleanupFns |-> Null, onDestroy |-> TRUE, listeners |-> {},
     ran |-> {}, whenBinding |-> "NO_CHANGE",
     prefetchWhenBinding |-> "NO_CHANGE"]

InitRuntime(C, I) ==
    /\ cfg \in C
    /\ inst = [i \in I |-> InitLDetails]
    /\ tDetails = [loadingState |-> "NOT_STARTED", loadingPromise |-> Null,
                   providers |-> Null]
    /\ registry = [directive |-> <<>>, pipe |-> <<>>]
    /\ timers = <<>>
    /\ now = 0
    /\ inflight = {}
    /\ subs = <<>>
    /\ pendingTasks = {}
    /\ taskCtr = 0
    /\ loaderCalls = 0
    /\ errors = <<>>
    /\ ret = <<"none", 0>>

InitWith(C, I) ==
    /\ InitRuntime(C, I)
    /\ parser = Null
    /\ explorer = Null
    /\ contexts = Null
    /\ migration = Null
    /\ names = Null

\* The runtime with no defer block instance, for the specifications of the
\* other parts.
NoRuntime == InitRuntime({CHOOSE c \in Configs : TRUE}, {})

Live(i) == i \in DOMAIN inst /\ ~inst[i].destroyed

\* The LView runs its destroy hooks: cleanupTriggersFn when it is still stored.
destroyLView(w, i) ==
    LET w1 == [w EXCEPT !.inst[i].destroyed = TRUE]
    IN  IF w.inst[i].onDestroy THEN invokeAllTriggerCleanupFns(w1, i) ELSE w1

\* A direct call of the exported renderDeferBlockState (DeferBlockFixture.render
\* passes skipTimerScheduling = true).
RenderDeferBlockState(i, newState, skip) ==
    /\ i \in DOMAIN inst
    /\ Commit(renderDeferBlockState(World, i, newState, skip))

\* The visible part of the `on idle/timer/hover/interaction/viewport`
\* instructions: renderPlaceholder.
RenderPlaceholder(i) ==
    /\ Live(i)
    /\ Commit(renderPlaceholder(World, i))

\* A regular trigger fires.
TriggerDeferBlock(i) ==
    /\ Live(i)
    /\ Len(subs) < MaxSubs
    /\ Commit(triggerDeferBlock(World, i))

DeferOnImmediate(i) ==
    /\ Live(i)
    /\ Len(subs) < MaxSubs
    /\ Commit(deferOnImmediate(World, i))

\* A prefetch trigger fires.
TriggerPrefetching(i) ==
    /\ Live(i)
    /\ Commit(triggerPrefetching(World, i))

DeferPrefetchOnImmediate(i) ==
    /\ Live(i)
    /\ tDetails.loadingState = "NOT_STARTED"
    /\ Commit(triggerResourceLoading(World, i))

\* A direct call of the exported triggerResourceLoading.
TriggerResourceLoading(i) ==
    /\ i \in DOMAIN inst
    /\ Commit(triggerResourceLoading(World, i))

\* The promise of a load settles: allSettled delivers res (no result without
\* a loader function).
LoadSettleWith(c, res) ==
    /\ c \in inflight
    /\ IF c.withFn THEN res \in DepResults ELSE res = <<>>
    /\ LET w == [World EXCEPT !.inflight = @ \ {c}]
       IN  IF c.withFn
           THEN Commit(loadingSettled(w, c.taskId, res))
           ELSE Commit(loadingResolvedWithoutFn(w, c.taskId))

LoadSettle == \E c \in inflight, res \in DepResults : LoadSettleWith(c, res)

\* The next reaction queued on the settled loading promise runs.
LoadingPromiseThen ==
    /\ subs # <<>>
    /\ inflight = {}
    /\ Commit(afterResourceLoading([World EXCEPT !.subs = Tail(@)], Head(subs)))

Tick ==
    /\ now < MaxTime
    /\ now' = now + 1
    /\ UNCHANGED <<cfg, inst, tDetails, registry, timers, inflight, subs,
                   pendingTasks, taskCtr, loaderCalls, errors, ret>>
    /\ UNCHANGED otherVars

\* The scheduler runs its first callback, at or after its invokeAt.
TimerFire ==
    /\ timers # <<>>
    /\ Head(timers).at <= now
    /\ Commit(deferBlockUpdateCallback([World EXCEPT !.timers = Tail(@)],
                                       Head(timers).inst))

\* The owning view is destroyed.
DestroyView(i) ==
    /\ Live(i)
    /\ Commit(destroyLView(World, i))

\* A trigger instruction of the template runs, once, in creation mode.
Instruction(i, name, w) ==
    /\ Live(i)
    /\ name \notin inst[i].ran
    /\ Commit([w EXCEPT !.inst[i].ran = @ \cup {name}])

DeferOnTimer(i) == Instruction(i, "onTimer", scheduleDelayedTrigger(World, i))

DeferPrefetchOnTimer(i) ==
    Instruction(i, "prefetchOnTimer", scheduleDelayedPrefetching(World, i))

DeferOnHover(i) == Instruction(i, "onHover", deferOnHover(World, i))

DeferPrefetchOnHover(i) ==
    Instruction(i, "prefetchOnHover", deferPrefetchOnHover(World, i))

\* The listener's event happens, on a live or on a destroyed view.
ListenerFire(i, callback) ==
    /\ i \in DOMAIN inst
    /\ callback \in inst[i].listeners
    /\ Len(subs) < MaxSubs
    /\ Commit(listenerCallback(World, i, callback))

\* Change detection runs the `when` bindings with a new value.
DeferWhen(i, rawValue) ==
    /\ Live(i)
    /\ inst[i].whenBinding # rawValue
    /\ Len(subs) < MaxSubs
    /\ Commit(deferWhen(World, i, rawValue))

DeferPrefetchWhen(i, rawValue) ==
    /\ Live(i)
    /\ inst[i].prefetchWhenBinding # rawValue
    /\ Commit(deferPrefetchWhen(World, i, rawValue))

\* Blocks without `after` and `minimum` parameters: no timer is ever armed.
ConfigsWithoutTimers ==
    {c \in Configs : /\ c.placeholderMinimum = Null
                      /\ c.loadingMinimum = Null
                      /\ c.loadingAfter = Null}

Operations ==
    \/ \E i \in DOMAIN inst, s \in DeferBlockStates, skip \in BOOLEAN :
           RenderDeferBlockState(i, s, skip)
    \/ \E i \in DOMAIN inst : RenderPlaceholder(i)
    \/ \E i \in DOMAIN inst : TriggerDeferBlock(i)
    \/ \E i \in DOMAIN inst : DeferOnImmediate(i)
    \/ \E i \in DOMAIN inst : TriggerPrefetching(i)
    \/ \E i \in DOMAIN inst : DeferPrefetchOnImmediate(i)
    \/ \E i \in DOMAIN inst : TriggerResourceLoading(i)
    \/ LoadSettle
    \/ LoadingPromiseThen
    \/ \E i \in DOMAIN inst : DestroyView(i)

\* Several instances of one block that has no timer configuration.
Init == InitWith(ConfigsWithoutTimers, Instances)

Next == Operations

Spec == Init /\ [][Next]_vars

\* One instance of a block of any template and timer configuration, in a
\* browser with triggering enabled, with the clock and the timers.
ConfigsInBrowser ==
    {c \in Configs : c.platformBrowser /\ ~c.behaviorManual}

InitSched == InitWith(ConfigsInBrowser, {1})

NextSched ==
    \/ Operations
    \/ Tick
    \/ TimerFire

SpecSched == InitSched /\ [][NextSched]_vars

\* One instance of a block on any platform, driven only by the instructions
\* the compiler generates for its triggers and by what they register: no
\* direct call of the exported functions, and no clock, so a browser block
\* has no `after` and `minimum` parameters here.
ConfigsTrig ==
    {c \in Configs : c.platformBrowser => c \in ConfigsWithoutTimers}

InitTrig == InitWith(ConfigsTrig, {1})

NextTrig ==
    \/ \E i \in DOMAIN inst : DeferOnImmediate(i)
    \/ \E i \in DOMAIN inst : DeferPrefetchOnImmediate(i)
    \/ \E i \in DOMAIN inst : DeferOnTimer(i)
    \/ \E i \in DOMAIN inst : DeferPrefetchOnTimer(i)
    \/ \E i \in DOMAIN inst : DeferOnHover(i)
    \/ \E i \in DOMAIN inst : DeferPrefetchOnHover(i)
    \/ \E i \in DOMAIN inst, callback \in Listeners : ListenerFire(i, callback)
    \/ \E i \in DOMAIN inst, rawValue \in {"true", "false"} :
           DeferWhen(i, rawValue)
    \/ \E i \in DOMAIN inst, rawValue \in {"true", "false"} :
           DeferPrefetchWhen(i, rawValue)
    \/ LoadSettle
    \/ LoadingPromiseThen
    \/ \E i \in DOMAIN inst : DestroyView(i)

SpecTrig == InitTrig /\ [][NextTrig]_vars

(******************************* claims ***********************************)
\* The fields of an instance a rejected request must leave alone.
Rendered(L) ==
    <<L.state, L.next, L.frozenUntil, L.loadingAfterCleanupFn, L.views>>

nextOrBelowAll(L) == IF L.next = Null THEN -1 ELSE L.next[1]

\* C1: in every reachable state, a renderDeferBlockState(newState) call on a
\* live instance whose newState is not strictly greater than both the rendered
\* state and the buffered next state (an empty buffer counting as -1) changes
\* neither the rendered state, the buffer, the freeze timestamp, the
\* loading-after cleanup function and the mounted views of the instance, nor
\* the timers, and hands no error over.
C1_RejectedRequestIsNoOp ==
    \A i \in DOMAIN inst, s \in DeferBlockStates, skip \in BOOLEAN :
        ( /\ ~inst[i].destroyed
          /\ ~(s > inst[i].state /\ s > nextOrBelowAll(inst[i])) )
        => LET w == renderDeferBlockState(World, i, s, skip)
           IN  /\ Rendered(w.inst[i]) = Rendered(inst[i])
               /\ w.timers = timers
               /\ w.errors = errors

\* A frozen instance with a terminal state in its buffer: every request for a
\* state up to the buffered one is a rejected request.
C1_Witness ==
    \E i \in DOMAIN inst :
        /\ ~inst[i].destroyed
        /\ inst[i].state = Placeholder
        /\ inst[i].next = Some(Complete)
        /\ inst[i].frozenUntil # Null
        /\ inst[i].requested = Complete

\* C2: the rendered state of an instance never decreases, whatever the step.
C2_RenderedStateNeverDecreases ==
    [][\A i \in DOMAIN inst : inst'[i].state >= inst[i].state]_vars

\* Complete is rendered while a timer armed for an earlier state is still to
\* fire.
C2_Witness ==
    \E i \in DOMAIN inst :
        /\ inst[i].state = Complete
        /\ inst[i].requestedTmpl = Complete
        /\ \E j \in 1..Len(timers) : timers[j].inst = i

C4_RenderedIsMaxRequested ==
    \A i \in DOMAIN inst : inst[i].state = inst[i].requested

\* C4 amended: the rendered state never exceeds the greatest requested state
\* that has a sub-template, and equals it for a block without `after` and
\* `minimum` parameters.
C4_RenderedIsMaxRequestedWithTemplate ==
    \A i \in DOMAIN inst :
        /\ inst[i].state <= inst[i].requestedTmpl
        /\ cfg \in ConfigsWithoutTimers => inst[i].state = inst[i].requestedTmpl

\* Loading is shown, Error was asked for and has no sub-template.
C4_Witness ==
    \E i \in DOMAIN inst :
        /\ cfg \in ConfigsWithoutTimers
        /\ inst[i].state = Loading
        /\ inst[i].requestedTmpl = Loading
        /\ inst[i].requested = Error

\* C5: dependencyResolverFn is invoked at most once for the block.
C5_LoaderInvokedAtMostOnce == loaderCalls <= 1

\* The load failed and triggerResourceLoading was called again afterwards.
C5_Witness ==
    /\ loaderCalls = 1
    /\ tDetails.loadingState = "FAILED"
    /\ ret = <<"resolved", 0>>
    /\ \A i \in DOMAIN inst : inst[i].triggered

\* C6: a triggerResourceLoading call made while the load is in progress
\* returns the stored loading promise, which is the one the starting call
\* returned and does not change while the load is in progress; a call made
\* after the load settled returns a resolved promise; and neither changes
\* tDetails, the registries or the pending tasks.
C6_TriggerResourceLoadingIdempotent ==
    [][/\ \A i \in DOMAIN inst :
            TriggerResourceLoading(i) =>
              /\ tDetails.loadingState = "NOT_STARTED"
                 => tDetails'.loadingPromise = Some(ret')
              /\ tDetails.loadingState = "IN_PROGRESS"
                 => /\ Some(ret') = tDetails.loadingPromise
                    /\ ret'[1] = "loading"
              /\ tDetails.loadingState \in {"COMPLETE", "FAILED"}
                 => ret' = <<"resolved", 0>>
              /\ tDetails.loadingState # "NOT_STARTED"
                 => UNCHANGED <<tDetails, registry, pendingTasks, taskCtr,
                                loaderCalls, inflight>>
       /\ (tDetails.loadingState = "IN_PROGRESS"
           /\ tDetails'.loadingState = "IN_PROGRESS")
          => tDetails'.loadingPromise = tDetails.loadingPromise]_vars

\* A call was made after the load completed.
C6_Witness ==
    /\ tDetails.loadingState = "COMPLETE"
    /\ ret = <<"resolved", 0>>
    /\ registry.directive # <<>>

\* C7: loadingState changes only from NOT_STARTED to IN_PROGRESS, in the step
\* of the triggerResourceLoading call that takes the pending task and returns
\* the loading promise, and from IN_PROGRESS to COMPLETE or FAILED.
C7_LoadingStateOnlyForward ==
    [][tDetails'.loadingState # tDetails.loadingState
       => \/ /\ tDetails.loadingState = "NOT_STARTED"
             /\ tDetails'.loadingState = "IN_PROGRESS"
             /\ taskCtr = 0 /\ taskCtr' = 1
             /\ ret' = <<"loading", 1>>
             /\ tDetails'.loadingPromise = Some(ret')
          \/ /\ tDetails.loadingState = "IN_PROGRESS"
             /\ tDetails'.loadingState \in {"COMPLETE", "FAILED"}]_vars

\* The load completed and a trigger fired afterwards.
C7_Witness ==
    /\ tDetails.loadingState = "COMPLETE"
    /\ taskCtr = 1
    /\ \E i \in DOMAIN inst : inst[i].triggered /\ inst[i].state = Complete

\* C8: when the load settles with the results res, loadingState becomes FAILED
\* if some result is rejected, leaving the registries and the providers alone,
\* and COMPLETE otherwise (no loader function: no result).
C8_FailedIffSomeRejected ==
    [][\A c \in inflight, res \in DepResults :
          LoadSettleWith(c, res) =>
            IF \E k \in 1..Len(res) : res[k] = "rejected"
            THEN /\ tDetails'.loadingState = "FAILED"
                 /\ registry' = registry
                 /\ tDetails'.providers = tDetails.providers
            ELSE tDetails'.loadingState = "COMPLETE"]_vars

\* The load failed although it had a loader function, and nothing was added.
C8_Witness ==
    /\ tDetails.loadingState = "FAILED"
    /\ cfg.dependencyResolverFn
    /\ registry = [directive |-> <<>>, pipe |-> <<>>]
    /\ tDetails.providers = Null

\* C9: exactly one DEFER_LOADING_FAILED error is handed to the error handler
\* when the load failed and the block has no error sub-template, and none
\* otherwise; when it has one, every triggered instance that is not destroyed
\* and has no reaction waiting on the loading promise shows Error.
C9_FailureReportedOrRendered ==
    /\ errors = IF tDetails.loadingState = "FAILED" /\ cfg.errorTmplIndex = Null
                THEN <<"DEFER_LOADING_FAILED">> ELSE <<>>
    /\ (tDetails.loadingState = "FAILED" /\ cfg.errorTmplIndex # Null)
       => \A i \in DOMAIN inst :
             ( /\ inst[i].triggered
               /\ ~inst[i].destroyed
               /\ \A k \in 1..Len(subs) : subs[k] # i )
             => inst[i].state = Error /\ inst[i].views = <<"error">>

\* Both instances were triggered before the load failed and show Error.
C9_Witness ==
    /\ tDetails.loadingState = "FAILED"
    /\ cfg.errorTmplIndex # Null
    /\ errors = <<>>
    /\ subs = <<>>
    /\ \A i \in DOMAIN inst :
          inst[i].triggered /\ ~inst[i].destroyed /\ inst[i].state = Error

\* C10: the block holds one pending task exactly while loadingState is
\* IN_PROGRESS, and PendingTasks.add() is called once, by the call that starts
\* the load.
C10_PendingTaskIffInProgress ==
    /\ pendingTasks = IF tDetails.loadingState = "IN_PROGRESS" THEN {1} ELSE {}
    /\ taskCtr = IF tDetails.loadingState = "NOT_STARTED" THEN 0 ELSE 1

\* A load without loader function completed, its task removed, and a trigger
\* came again.
C10_Witness ==
    /\ ~cfg.dependencyResolverFn
    /\ tDetails.loadingState = "COMPLETE"
    /\ pendingTasks = {}
    /\ taskCtr = 1
    /\ ret = <<"resolved", 0>>

\* C11: for a block whose @loading has an `after` delay, a step that mounts the
\* loading sub-view, other than a direct call that asks to skip the timers,
\* happens no earlier than the delay after the first request for Loading.
C11_LoadingNotBeforeAfter ==
    [][\A i \in DOMAIN inst :
          ( /\ inst'[i].state = Loading
            /\ inst[i].state # Loading
            /\ cfg.loadingAfter # Null
            /\ ~\E s \in DeferBlockStates : RenderDeferBlockState(i, s, TRUE) )
          => /\ inst[i].loadingAt # Null
             /\ now >= inst[i].loadingAt[1] + cfg.loadingAfter[1]]_vars

\* The loading-after timer of instance i is still in the scheduler's queue.
loadingAfterTimerPending(w, i) ==
    /\ w.inst[i].loadingAfterCleanupFn # Null
    /\ \E j \in 1..Len(w.timers) :
           w.timers[j].id = w.inst[i].loadingAfterCleanupFn[1]

\* What a request for Complete or Error does when it is accepted with the
\* loading-after timer pending: timer cancelled, buffer emptied.
cancelledAndDiscarded(w, i) ==
    /\ ~loadingAfterTimerPending(w, i)
    /\ w.inst[i].loadingAfterCleanupFn = Null
    /\ w.inst[i].next = Null
    /\ Len(w.timers) = Len(timers) - 1

acceptedInLoadingAfterPhase(i, s) ==
    /\ ~inst[i].destroyed
    /\ loadingAfterTimerPending(World, i)
    /\ s > inst[i].state
    /\ s > nextOrBelowAll(inst[i])

\* C12: a request for Complete or Error accepted while the loading-after timer
\* is pending cancels the timer, discards the buffered Loading and renders the
\* requested state at once (nothing, when that state has no sub-template).
C12_TerminalSkipsLoading ==
    \A i \in DOMAIN inst, s \in {Complete, Error} :
        acceptedInLoadingAfterPhase(i, s)
        => LET w == renderDeferBlockState(World, i, s, FALSE)
           IN  /\ cancelledAndDiscarded(w, i)
               /\ IF getTemplateIndexForState(s) # Null
                  THEN /\ w.inst[i].state = s
                       /\ w.inst[i].views = getTemplateIndexForState(s)
                  ELSE /\ w.inst[i].state = inst[i].state
                       /\ w.inst[i].views = inst[i].views

\* C13: a step that mounts another state on an instance whose mounted state
\* has a minimum duration, other than a direct call that asks to skip the
\* timers, happens no earlier than the end of that minimum duration.
C13_MinimumDurationRespected ==
    [][\A i \in DOMAIN inst :
          ( /\ inst'[i].state # inst[i].state
            /\ inst[i].heldUntil # Null
            /\ ~\E s \in DeferBlockStates : RenderDeferBlockState(i, s, TRUE) )
          => now >= inst[i].heldUntil[1]]_vars

\* What an instance shows and buffers, with the shared loading state: what a
\* call that "does nothing" must leave alone.
Visible(w, i) ==
    <<Rendered(w.inst[i]), w.timers, w.tDetails, w.subs, w.inflight,
      w.pendingTasks, w.loaderCalls, w.errors>>

\* C14 as stated: a `when` value turning true in Initial or Placeholder takes
\* the instance to Loading; turning true in Loading, Complete or Error does
\* nothing; a false value renders Placeholder only from Initial.
C14_WhenTrueRendersLoading ==
    \A i \in DOMAIN inst, rawValue \in {"true", "false"} :
        (~inst[i].destroyed /\ inst[i].whenBinding # rawValue)
        => LET w == deferWhen(World, i, rawValue)
               renderedState == inst[i].state
           IN  /\ (rawValue = "true" /\ renderedState \in {Initial, Placeholder})
                  => w.inst[i].state = Loading
               /\ (rawValue = "true" /\ renderedState \in {Loading, Complete, Error})
                  => Visible(w, i) = Visible(World, i)
               /\ (rawValue = "false" /\ renderedState # Initial)
                  => Visible(w, i) = Visible(World, i)

\* C14 amended: a `when` value turning true in Initial or Placeholder triggers
\* the block when triggering is enabled: the load is started, Placeholder is
\* not mounted by that step, and the instance asks for Loading while the load
\* has not settled (mounted at once when the block has a @loading sub-template
\* and no `after` or `minimum` parameter), for Complete after a completed load
\* and for Error after a failed one; with triggering disabled nothing happens.
\* Turning true in Loading, Complete or Error does nothing, and a false value
\* renders Placeholder only from Initial.
C14_WhenTrueTriggersBlock ==
    \A i \in DOMAIN inst, rawValue \in {"true", "false"} :
        (~inst[i].destroyed /\ inst[i].whenBinding # rawValue)
        => LET w == deferWhen(World, i, rawValue)
               renderedState == inst[i].state
               loadingState == tDetails.loadingState
               asked == IF loadingState = "COMPLETE" THEN Complete
                        ELSE IF loadingState = "FAILED" THEN Error
                        ELSE Loading
           IN  /\ (rawValue = "true" /\ renderedState \in {Initial, Placeholder})
                  => IF shouldTriggerDeferBlock
                     THEN /\ w.tDetails.loadingState # "NOT_STARTED"
                          /\ w.inst[i].state = Placeholder
                             => renderedState = Placeholder
                          /\ w.inst[i].requested = Max(inst[i].requested, asked)
                          /\ ( /\ getTemplateIndexForState(asked) # Null
                               /\ cfg \in ConfigsWithoutTimers )
                             => /\ w.inst[i].state = asked
                                /\ w.inst[i].views = getTemplateIndexForState(asked)
                          /\ getTemplateIndexForState(asked) = Null
                             => w.inst[i].state = renderedState
                     ELSE Visible(w, i) = Visible(World, i)
               /\ (rawValue = "true" /\ renderedState \in {Loading, Complete, Error})
                  => Visible(w, i) = Visible(World, i)
               /\ (rawValue = "false" /\ renderedState # Initial)
                  => Visible(w, i) = Visible(World, i)
               /\ (rawValue = "false" /\ renderedState = Initial)
                  => /\ w.tDetails = tDetails
                     /\ w.inst[i].state =
                          IF cfg.placeholderTmplIndex # Null
                          THEN Placeholder ELSE Initial

\* The `when` value was true at the first change detection: the instance
\* shows Loading, no trigger instruction having rendered a placeholder.
C14_Witness ==
    \E i \in DOMAIN inst :
        /\ inst[i].whenBinding = "true"
        /\ inst[i].state = Loading
        /\ inst[i].ran = {}
        /\ inst[i].triggered
        /\ cfg.placeholderTmplIndex # Null
        /\ tDetails.loadingState = "IN_PROGRESS"

\* What firing each prefetch trigger of instance i makes of the current state:
\* the prefetch instructions, the prefetch callbacks and the `prefetch when`
\* binding.
prefetchOutcomes(i) ==
    {triggerPrefetching(World, i),
     scheduleDelayedPrefetching(World, i),
     deferPrefetchOnHover(World, i),
     IF tDetails.loadingState = "NOT_STARTED"
     THEN triggerResourceLoading(World, i) ELSE World}
    \cup {deferPrefetchWhen(World, i, rawValue) : rawValue \in {"true", "false"}}
    \cup {listenerCallback(World, i, callback) : callback \in PrefetchListeners}

\* C15: in every reachable state, whatever prefetch trigger fires, the
\* rendered state, the buffer, the freeze timestamp, the loading-after cleanup
\* function and the mounted views of every instance stay as they are, and so
\* do the timers; only the load may start.
C15_PrefetchChangesNothingVisible ==
    \A i \in DOMAIN inst : \A w \in prefetchOutcomes(i) :
        /\ \A j \in DOMAIN inst : Rendered(w.inst[j]) = Rendered(inst[j])
        /\ w.timers = timers
        /\ w.errors = errors
        /\ w.tDetails.loadingState \in {tDetails.loadingState, "IN_PROGRESS"}

\* A prefetch started the load while the instance, never triggered, sits in a
\* placeholder held for its minimum duration.
C15_Witness ==
    \E i \in DOMAIN inst :
        /\ tDetails.loadingState = "IN_PROGRESS"
        /\ \A j \in DOMAIN inst : ~inst[j].triggered
        /\ inst[i].state = Placeholder
        /\ inst[i].frozenUntil # Null
        /\ inst[i].requested = Placeholder

\* The prefetch listeners of an instance and their stored cleanup functions.
prefetchRegistrations(L) ==
    <<L.listeners \cap PrefetchListeners, L.prefetchCleanupFns>>

\* w but for the value the last call returned.
sameButRet(w) == [w EXCEPT !.ret = ret]

\* C16: in every reachable state where the load has started, a prefetch
\* instruction changes nothing (`prefetch when` only records its binding), so
\* it registers no listener and stores no cleanup function, and a prefetch
\* callback changes nothing but the scheduler dropping the callback it ran;
\* and where the load has not started, starting it for an instance, by
\* triggerResourceLoading or by triggerDeferBlock, leaves that instance
\* without prefetch listener and without stored prefetch cleanup function.
C16_PrefetchNoOpOnceLoadingStarted ==
    \A i \in DOMAIN inst :
        /\ tDetails.loadingState # "NOT_STARTED" =>
              /\ scheduleDelayedPrefetching(World, i) = World
              /\ deferPrefetchOnHover(World, i) = World
              /\ \A rawValue \in {"true", "false"} :
                     deferPrefetchWhen(World, i, rawValue)
                       = [World EXCEPT !.inst[i].prefetchWhenBinding = rawValue]
              /\ \A callback \in PrefetchListeners :
                     sameButRet(listenerCallback(World, i, callback))
                       = [World EXCEPT !.inst[i].listeners =
                              IF callback \in SchedulerListeners
                              THEN @ \ {callback} ELSE @]
        /\ tDetails.loadingState = "NOT_STARTED" =>
              \A w \in {triggerResourceLoading(World, i)} \cup
                        (IF shouldTriggerDeferBlock
                         THEN {triggerDeferBlock(World, i)} ELSE {}) :
                  /\ w.tDetails.loadingState = "IN_PROGRESS"
                  /\ prefetchRegistrations(w.inst[i]) = <<{}, Null>>

\* The load was started by a prefetch after both prefetch instructions and
\* `on hover` had run: no prefetch listener is left, the hover listener is.
C16_Witness ==
    \E i \in DOMAIN inst :
        /\ tDetails.loadingState # "NOT_STARTED"
        /\ ~inst[i].triggered
        /\ PrefetchListeners \subseteq inst[i].ran
        /\ prefetchRegistrations(inst[i]) = <<{}, Null>>
        /\ "onHover" \in inst[i].listeners

\* No timer armed for the instance and nothing held or buffered for one.
noTimerArmed(w, i) ==
    /\ w.timers = <<>>
    /\ w.inst[i].frozenUntil = Null
    /\ w.inst[i].next = Null
    /\ w.inst[i].loadingAfterCleanupFn = Null

\* Nothing handed to the idle or timer scheduler, no cleanup function of it
\* stored.
noSchedulerCall(L) ==
    /\ L.listeners \cap SchedulerListeners = {}
    /\ \A cleanupFns \in {L.triggerCleanupFns, L.prefetchCleanupFns} \ {Null} :
           \A k \in 1..Len(cleanupFns[1]) :
               cleanupFns[1][k] \notin SchedulerListeners

\* C17: on a platform other than the browser, in every reachable state, the
\* prefetch `on idle`/`on timer` instruction changes nothing, the regular one
\* does what renderPlaceholder does and no more (the rendered state stays or
\* becomes Placeholder, which needs a placeholder sub-template), no callback
\* is in a scheduler and no cleanup function of one is stored, and no
\* rendering request arms a timer, freezes the instance or buffers a state.
C17_ServerNeverSchedules ==
    ~isPlatformBrowser =>
        \A i \in DOMAIN inst :
            /\ scheduleDelayedPrefetching(World, i) = World
            /\ LET w == scheduleDelayedTrigger(World, i)
               IN  /\ w = renderPlaceholder(World, i)
                   /\ \/ Rendered(w.inst[i]) = Rendered(inst[i])
                      \/ /\ w.inst[i].state = Placeholder
                         /\ cfg.placeholderTmplIndex # Null
                   /\ noSchedulerCall(w.inst[i])
            /\ noSchedulerCall(inst[i])
            /\ noTimerArmed(World, i)
            /\ \A s \in DeferBlockStates :
                   noTimerArmed(renderDeferBlockState(World, i, s, FALSE), i)

\* On the server both `on timer` instructions have run for a block whose
\* placeholder has a minimum duration: the placeholder is mounted and nothing
\* is scheduled.
C17_Witness ==
    \E i \in DOMAIN inst :
        /\ ~isPlatformBrowser
        /\ SchedulerListeners \subseteq inst[i].ran
        /\ cfg.placeholderMinimum # Null
        /\ inst[i].state = Placeholder
        /\ inst[i].listeners = {}
        /\ timers = <<>>

\* C18: when triggering is disabled (a platform other than the browser, or
\* DeferBlockBehavior.Manual), whatever trigger instructions ran and whatever
\* listeners fired, the load is NOT_STARTED, the loader function was never
\* called and no instance is rendered beyond Placeholder.
C18_DisabledNeverTriggers ==
    ~shouldTriggerDeferBlock =>
        /\ tDetails.loadingState = "NOT_STARTED"
        /\ loaderCalls = 0
        /\ \A i \in DOMAIN inst : inst[i].state <= Placeholder

\* The part of it that is about what is rendered.
C18_DisabledRendersAtMostPlaceholder ==
    ~shouldTriggerDeferBlock =>
        \A i \in DOMAIN inst : inst[i].state <= Placeholder /\ ~inst[i].triggered

\* C19: once the owning view is destroyed, no listener of the instance is
\* still registered and no stored cleanup function is left uninvoked,
\* whatever trigger instructions and firings came before.
C19_DestroyInvokesEveryCleanup ==
    \A i \in DOMAIN inst :
        inst[i].destroyed =>
            /\ inst[i].listeners = {}
            /\ inst[i].triggerCleanupFns = Null
            /\ inst[i].prefetchCleanupFns = Null

\* The same for an instance that was never triggered before its view was
\* destroyed.
C19_DestroyOfUntriggeredInvokesEveryCleanup ==
    \A i \in DOMAIN inst :
        (inst[i].destroyed /\ ~inst[i].triggered) =>
            /\ inst[i].listeners = {}
            /\ inst[i].triggerCleanupFns = Null
            /\ inst[i].prefetchCleanupFns = Null

\* C20 as stated: in every step from a state where the view of an instance is
\* destroyed, the instance stays destroyed and its rendered state, its NEXT
\* buffer and its mounted views stay as they are; a step that settles a load
\* leaves loadingState COMPLETE or FAILED and removes a pending task.
C20_DestroyedNeverChanges ==
    [][\A i \in DOMAIN inst :
          inst[i].destroyed =>
              /\ inst'[i].destroyed
              /\ inst'[i].state = inst[i].state
              /\ inst'[i].next = inst[i].next
              /\ inst'[i].views = inst[i].views
              /\ (inflight' # inflight /\ inflight' \subseteq inflight) =>
                     /\ tDetails'.loadingState \in {"COMPLETE", "FAILED"}
                     /\ pendingTasks' # pendingTasks
                     /\ pendingTasks' \subseteq pendingTasks]_vars

\* C20, amended: the same, but the NEXT buffer and the freeze timestamp may
\* also be cleared (which the callback of a pending timer does); nothing is
\* buffered, frozen or scheduled anew for the destroyed instance.
C20_DestroyedOnlyUnfreezes ==
    [][\A i \in DOMAIN inst :
          inst[i].destroyed =>
              /\ inst'[i].destroyed
              /\ inst'[i].state = inst[i].state
              /\ inst'[i].views = inst[i].views
              /\ inst'[i].loadingAfterCleanupFn = inst[i].loadingAfterCleanupFn
              /\ inst'[i].next \in {inst[i].next, Null}
              /\ inst'[i].frozenUntil \in {inst[i].frozenUntil, Null}
              /\ \A k \in 1..Len(timers') :
                     timers'[k].inst = i => \E l \in 1..Len(timers) : timers[l] = timers'[k]
              /\ (inflight' # inflight /\ inflight' \subseteq inflight) =>
                     /\ tDetails'.loadingState \in {"COMPLETE", "FAILED"}
                     /\ pendingTasks' # pendingTasks
                     /\ pendingTasks' \subseteq pendingTasks]_vars

\* A triggered instance whose view was destroyed while Loading was held for
\* its minimum duration: the load has completed, its reaction and the timer
\* have run, Complete was requested and the instance still shows Loading.
C20_Witness ==
    \E i \in DOMAIN inst :
        /\ inst[i].destroyed
        /\ inst[i].triggered
        /\ inst[i].state = Loading
        /\ cfg.loadingMinimum # Null
        /\ cfg.loadingAfter = Null
        /\ tDetails.loadingState = "COMPLETE"
        /\ subs = <<>>
        /\ timers = <<>>
        /\ inst[i].next = Null

(*************************** trigger parser *******************************)
(* packages/compiler/src/render3/r3_deferred_triggers.ts. An expression is *)
(* a string; a position in it counts from 0, as in the source; a source    *)
(* span is <<start, end>>, relative to the start of the block parameter.   *)
(***************************************************************************)
Min(a, b) == IF a <= b THEN a ELSE b

\* value[k], value.slice(from, to) and value.slice(from) of JavaScript
charAt(value, k) == SubSeq(value, k + 1, k + 1)

slice(value, from, to) == SubSeq(value, from + 1, to)

sliceFrom(value, from) ==
    IF from < 0
    THEN SubSeq(value, Max(Len(value) + from, 0) + 1, Len(value))
    ELSE SubSeq(value, from + 1, Len(value))

startsWith(value, prefix) ==
    Len(value) >= Len(prefix) /\ slice(value, 0, Len(prefix)) = prefix

\* value.indexOf(pattern): the first position where pattern occurs, or -1
indexOf(value, pattern) ==
    LET found == {k \in 0..(Len(value) - Len(pattern)) :
                     slice(value, k, k + Len(pattern)) = pattern}
    IN  IF found = {} THEN -1
        ELSE CHOOSE k \in found : \A l \in found : k <= l

Digits == {"0", "1", "2", "3", "4", "5", "6", "7", "8", "9"}

isDigit(c) == c \in Digits

\* SEPARATOR_PATTERN = /^\s$/
isSeparator(c) == c = " "

\* The characters the lexer makes Character tokens of.
CharacterChars == {"(", ")", "[", "]", "{", "}", ",", ".", ";", ":"}

\* COMMA_DELIMITED_SYNTAX
COMMA_DELIMITED_SYNTAX == ("{" :> "}") @@ ("[" :> "]") @@ ("(" :> ")")

(* Lexer.tokenize of ../expression_parser/lexer: whitespace separates        *)
(* tokens; a run of digits and periods that starts with a digit, or with a *)
(* period followed by a digit, is a Number token; any other character of   *)
(* CharacterChars is a Character token; a run of other characters and      *)
(* digits is an Identifier token. A token carries its text and its         *)
(* positions index and end in the tokenized text.                          *)
\* The end of the run of characters of chars that starts at position from.
runEnd(text, from, chars) ==
    LET end[k \in Nat] ==
            IF k < Len(text) /\ charAt(text, k) \in chars THEN end[k + 1] ELSE k
    IN  end[from]

\* The end of the run of identifier characters that starts at position from.
identifierEnd(text, from) ==
    LET end[k \in Nat] ==
            IF k < Len(text) /\ ~isSeparator(charAt(text, k))
                             /\ charAt(text, k) \notin CharacterChars
            THEN end[k + 1] ELSE k
    IN  end[from]

newToken(type, text, index, end) ==
    [type |-> type, strValue |-> slice(text, index, end),
     index |-> index, end |-> end]

\* The tokens of text from position k on.
scan(text) ==
    LET tokensFrom[k \in Nat] ==
            IF k >= Len(text) THEN <<>>
            ELSE LET c == charAt(text, k) IN
                 IF isSeparator(c) THEN tokensFrom[k + 1]
                 ELSE IF isDigit(c) \/ (c = "." /\ k + 1 < Len(text)
                                                /\ isDigit(charAt(text, k + 1)))
                 THEN LET end == runEnd(text, k + 1, Digits \cup {"."})
                      IN  <<newToken("Number", text, k, end)>> \o tokensFrom[end]
                 ELSE IF c \in CharacterChars
                 THEN <<newToken("Character", text, k, k + 1)>> \o tokensFrom[k + 1]
                 ELSE LET end == identifierEnd(text, k + 1)
                      IN  <<newToken("Identifier", text, k, end)>> \o tokensFrom[end]
    IN  tokensFrom

tokenize(text) == scan(text)[0]

isIdentifier(token) == token.type = "Identifier"

isCharacter(token, char) == token.type = "Character" /\ token.strValue = char

(***************************** time values ********************************)
\* A number is [num |-> n, scale |-> k], the decimal n / 10^k.
\* The number a string of digits denotes.
digitsValue(digits) ==
    LET value[k \in Nat] ==
            IF k = 0 THEN 0
            ELSE 10 * value[k - 1]
                     + (CHOOSE d \in 0..9 :
                           charAt("0123456789", d) = charAt(digits, k - 1))
    IN  value[Len(digits)]

\* The match of TIME_PATTERN = /^\d+\.?\d*(ms|s)?$/ in value: null, or the
\* ends of \d+, of \.? and of \d*, and the units group ("" when it did not
\* take part in the match).
timePatternMatch(value) ==
    LET intEnd == runEnd(value, 0, Digits)
        dotEnd == IF intEnd < Len(value) /\ charAt(value, intEnd) = "."
                  THEN intEnd + 1 ELSE intEnd
        fracEnd == runEnd(value, dotEnd, Digits)
        units == sliceFrom(value, fracEnd)
    IN  IF intEnd > 0 /\ units \in {"", "ms", "s"}
        THEN Some([intEnd |-> intEnd, dotEnd |-> dotEnd, fracEnd |-> fracEnd,
                   units |-> units])
        ELSE Null

\* digits without its leading zeros, but for the last digit
stripLeadingZeros(digits) ==
    sliceFrom(digits, Max(0, Min(runEnd(digits, 0, {"0"}), Len(digits) - 1)))

\* digits without its trailing zeros
stripTrailingZeros(digits) ==
    LET end[k \in Nat] ==
            IF k > 0 /\ charAt(digits, k - 1) = "0" THEN end[k - 1] ELSE k
    IN  slice(digits, 0, end[Len(digits)])

\* parseFloat of a text that starts with digits, a period or not, and digits:
\* the number its longest numeric prefix denotes (1.50 and 1.5 are one number).
parseFloat(time) ==
    LET intEnd == runEnd(time, 0, Digits)
        dotEnd == IF intEnd < Len(time) /\ charAt(time, intEnd) = "."
                  THEN intEnd + 1 ELSE intEnd
        fracEnd == runEnd(time, dotEnd, Digits)
        frac == stripTrailingZeros(slice(time, dotEnd, fracEnd))
    IN  [num |-> digitsValue(slice(time, 0, intEnd) \o frac),
         scale |-> Len(frac)]

unitsIgnored(units) == 1

\* units === 's' ? 1000 : 1
unitsFactor(units) == IF units = "s" THEN 1000 ELSE 1

parseDeferredTime(value) ==
    LET match == timePatternMatch(value)
    IN  IF match = Null THEN Null
        ELSE LET time == value
                 units == match[1].units
                 number == parseFloat(time)
             IN  Some([number EXCEPT !.num = @ * unitsFactor(units)])

(**************************** descriptors *********************************)
TriggerKinds ==
    {"when", "idle", "timer", "immediate", "hover", "interaction", "viewport"}

\* OnTriggerType
OnTriggerType == {"idle", "timer", "interaction", "immediate", "hover", "viewport"}

\* t.DeferredBlockTriggers with no trigger
NoTriggers == [kind \in TriggerKinds |-> Null]

\* A function that throws returns Throw(message); one that returns, Return(v).
Throw(message) == [thrown |-> TRUE, message |-> message]

Return(value) == [thrown |-> FALSE, value |-> value]

\* new t.IdleDeferredTrigger(..), t.TimerDeferredTrigger(..), ...
DeferredTrigger(kind, value, nameSpan, sourceSpan, prefetchSpan, onSourceSpan) ==
    [kind |-> kind, value |-> value, nameSpan |-> nameSpan,
     sourceSpan |-> sourceSpan, prefetchSpan |-> prefetchSpan,
     onSourceSpan |-> onSourceSpan]

ParseError(span, msg) == [span |-> span, msg |-> msg]

quoted(text) == "\"" \o text \o "\""

overwritesTrigger(allTriggers, name) == FALSE

\* if (allTriggers[name])
alreadyTracked(allTriggers, name) == allTriggers[name] # Null

\* What trackTrigger leaves in allTriggers and errors.
trackTrigger(name, allTriggers, errs, trigger) ==
    IF alreadyTracked(allTriggers, name)
    THEN [triggers |-> allTriggers,
          errors |-> Append(errs, ParseError(trigger.sourceSpan,
                       "Duplicate " \o quoted(name) \o " trigger is not allowed"))]
    ELSE [triggers |-> [allTriggers EXCEPT ![name] = Some(trigger)],
          errors |-> errs]

createIdleTrigger(parameters, nameSpan, sourceSpan, prefetchSpan, onSourceSpan) ==
    IF Len(parameters) > 0
    THEN Throw(quoted("idle") \o " trigger cannot have parameters")
    ELSE Return(DeferredTrigger("idle", Null, nameSpan, sourceSpan,
                                prefetchSpan, onSourceSpan))

createTimerTrigger(parameters, nameSpan, sourceSpan, prefetchSpan, onSourceSpan) ==
    IF Len(parameters) # 1
    THEN Throw(quoted("timer") \o " trigger must have exactly one parameter")
    ELSE LET delay == parseDeferredTime(parameters[1])
         IN  IF delay = Null
             THEN Throw("Could not parse time value of trigger " \o quoted("timer"))
             ELSE Return(DeferredTrigger("timer", delay[1], nameSpan, sourceSpan,
                                         prefetchSpan, onSourceSpan))

createImmediateTrigger(parameters, nameSpan, sourceSpan, prefetchSpan, onSourceSpan) ==
    IF Len(parameters) > 0
    THEN Throw(quoted("immediate") \o " trigger cannot have parameters")
    ELSE Return(DeferredTrigger("immediate", Null, nameSpan, sourceSpan,
                                prefetchSpan, onSourceSpan))

anyParameterCount(parameters) == FALSE

\* parameters.length > 1
tooManyParameters(parameters) == Len(parameters) > 1

anyPlaceholder(placeholder) == FALSE

\* placeholder.children.length !== 1 || !(placeholder.children[0] instanceof Element)
notOneRootElement(placeholder) ==
    \/ Len(placeholder.children) # 1
    \/ placeholder.children[1] # "Element"

validateReferenceBasedTrigger(type, parameters, placeholder) ==
    IF tooManyParameters(parameters)
    THEN Throw(quoted(type) \o " trigger can only have zero or one parameters")
    ELSE IF Len(parameters) = 0
    THEN IF placeholder = Null
         THEN Throw(quoted(type) \o
                    " trigger with no parameters can only be placed on an @defer that has a @placeholder block")
         ELSE IF notOneRootElement(placeholder[1])
         THEN Throw(quoted(type) \o
                    " trigger with no parameters can only be placed on an @defer that has a " \o
                    "@placeholder block with exactly one root element node")
         ELSE Return(Null)
    ELSE Return(Null)

\* parameters[0] ?? null
firstOrNull(parameters) ==
    IF Len(parameters) > 0 THEN Some(parameters[1]) ELSE Null

createReferenceBasedTrigger(type, parameters, nameSpan, sourceSpan, prefetchSpan, onSourceSpan, placeholder) ==
    LET validated == validateReferenceBasedTrigger(type, parameters, placeholder)
    IN  IF validated.thrown THEN validated
        ELSE Return(DeferredTrigger(type, firstOrNull(parameters), nameSpan,
                                    sourceSpan, prefetchSpan, onSourceSpan))

createHoverTrigger(parameters, nameSpan, sourceSpan, prefetchSpan, onSourceSpan, placeholder) ==
    createReferenceBasedTrigger("hover", parameters, nameSpan, sourceSpan,
                                prefetchSpan, onSourceSpan, placeholder)

createInteractionTrigger(parameters, nameSpan, sourceSpan, prefetchSpan, onSourceSpan, placeholder) ==
    createReferenceBasedTrigger("interaction", parameters, nameSpan, sourceSpan,
                                prefetchSpan, onSourceSpan, placeholder)

createViewportTrigger(parameters, nameSpan, sourceSpan, prefetchSpan, onSourceSpan, placeholder) ==
    createReferenceBasedTrigger("viewport", parameters, nameSpan, sourceSpan,
                                prefetchSpan, onSourceSpan, placeholder)

\* The first position from startPosition on that holds no separator and
\* comes after a separator (hasFoundSeparator), or -1.
getTriggerParametersStart(value, startPosition) ==
    LET positions == startPosition..(Len(value) - 1)
        separators == {i \in positions : isSeparator(charAt(value, i))}
        starts == {i \in positions :
                      /\ ~isSeparator(charAt(value, i))
                      /\ \E j \in separators : j < i}
    IN  IF starts = {} THEN -1
        ELSE CHOOSE i \in starts : \A j \in starts : i <= j

getPrefetchSpan(expression) ==
    IF ~startsWith(expression, "prefetch") THEN Null
    ELSE Some(<<0, Len("prefetch")>>)

(*************************** OnTriggerParser ******************************)
(* A parser P is a record of the fields of OnTriggerParser; the span of    *)
(* the block parameter starts at 0. P.consumed, the arguments of the calls *)
(* of consumeTrigger so far, is a history field.                           *)
(***************************************************************************)
\* Token.toString(): the text of the token, a Number token printed as the
\* number it denotes.
tokenToString(token) ==
    IF token.type # "Number" THEN token.strValue
    ELSE LET text == token.strValue
             intEnd == runEnd(text, 0, Digits)
             whole == stripLeadingZeros(IF intEnd = 0 THEN "0"
                                        ELSE slice(text, 0, intEnd))
             frac == stripTrailingZeros(
                         slice(text, Min(intEnd + 1, Len(text)),
                               runEnd(text, Min(intEnd + 1, Len(text)), Digits)))
         IN  IF frac = "" THEN whole ELSE whole \o "." \o frac

OnTriggerParser(expression, start, allTriggers, errs, placeholder, prefetchSpan, onSourceSpan) ==
    [expression |-> expression, start |-> start,
     tokens |-> tokenize(sliceFrom(expression, start)), index |-> 0,
     triggers |-> allTriggers, errors |-> errs, placeholder |-> placeholder,
     prefetchSpan |-> prefetchSpan, onSourceSpan |-> onSourceSpan,
     consumed |-> <<>>, thrown |-> Null]

advance(P) == [P EXCEPT !.index = @ + 1]

\* this.tokens[Math.min(this.index, this.tokens.length - 1)]
token(P) == P.tokens[Min(P.index, Len(P.tokens) - 1) + 1]

isFollowedByOrLast(P, char) ==
    IF P.index = Len(P.tokens) - 1 THEN TRUE
    ELSE isCharacter(P.tokens[P.index + 2], char)

tokenText(P) ==
    slice(P.expression, P.start + token(P).index, P.start + token(P).end)

error(P, tok, message) ==
    LET newStart == P.start + tok.index
        newEnd == newStart + (tok.end - tok.index)
    IN  [P EXCEPT !.errors = Append(@, ParseError(<<newStart, newEnd>>, message))]

unexpectedToken(P, tok) ==
    error(P, tok, "Unexpected token " \o quoted(tokenToString(tok)))

rethrows(e) == FALSE

\* catch (e) of consumeTrigger
catches(e) == TRUE

consumeTrigger(P, identifier, parameters) ==
    LET triggerNameStartSpan == P.start + identifier.index - P.tokens[1].index
        nameSpan == <<triggerNameStartSpan,
                      triggerNameStartSpan + Len(identifier.strValue)>>
        endSpan == triggerNameStartSpan + (token(P).end - identifier.index)
        isFirstTrigger == identifier.index = 0
        onSourceSpan == IF isFirstTrigger THEN Some(P.onSourceSpan) ELSE Null
        prefetchSourceSpan == IF isFirstTrigger THEN P.prefetchSpan ELSE Null
        sourceSpan == <<IF isFirstTrigger THEN 0 ELSE triggerNameStartSpan,
                        endSpan>>
        name == tokenToString(identifier)
        created ==
            CASE name = "idle" ->
                   createIdleTrigger(parameters, nameSpan, sourceSpan,
                                     prefetchSourceSpan, onSourceSpan)
              [] name = "timer" ->
                   createTimerTrigger(parameters, nameSpan, sourceSpan,
                                      P.prefetchSpan, Some(P.onSourceSpan))
              [] name = "interaction" ->
                   createInteractionTrigger(parameters, nameSpan, sourceSpan,
                       P.prefetchSpan, Some(P.onSourceSpan), P.placeholder)
              [] name = "immediate" ->
                   createImmediateTrigger(parameters, nameSpan, sourceSpan,
                                          P.prefetchSpan, Some(P.onSourceSpan))
              [] name = "hover" ->
                   createHoverTrigger(parameters, nameSpan, sourceSpan,
                       P.prefetchSpan, Some(P.onSourceSpan), P.placeholder)
              [] name = "viewport" ->
                   createViewportTrigger(parameters, nameSpan, sourceSpan,
                       P.prefetchSpan, Some(P.onSourceSpan), P.placeholder)
              [] OTHER ->
                   Throw("Unrecognized trigger type " \o quoted(name))
        Q == [P EXCEPT !.consumed =
                  Append(@, [identifier |-> identifier, parameters |-> parameters])]
    IN  IF created.thrown
        THEN IF catches(created) THEN error(Q, identifier, created.message)
             ELSE [Q EXCEPT !.thrown = Some(created.message)]
        ELSE LET tracked == trackTrigger(name, Q.triggers, Q.errors, created.value)
             IN  [Q EXCEPT !.triggers = tracked.triggers,
                           !.errors = tracked.errors]

splitsAtAnyDepth(commaDelimStack) == TRUE

\* commaDelimStack.length === 0
atTopLevel(commaDelimStack) == Len(commaDelimStack) = 0

\* One pass of the loop of consumeParameters and the passes after it, up to
\* its break or the end of the tokens.
RECURSIVE consumeParametersLoop(_, _, _, _)
consumeParametersPass(P, commaDelimStack, current, parameters) ==
    IF ~(P.index < Len(P.tokens))
    THEN [P |-> P, commaDelimStack |-> commaDelimStack, parameters |-> parameters]
    ELSE LET tok == token(P) IN
         IF isCharacter(tok, ")") /\ Len(commaDelimStack) = 0
         THEN [P |-> P, commaDelimStack |-> commaDelimStack,
               parameters |-> IF Len(current) > 0
                              THEN Append(parameters, current) ELSE parameters]
         ELSE LET pushed ==
                      IF /\ tok.type = "Character"
                         /\ tok.strValue \in DOMAIN COMMA_DELIMITED_SYNTAX
                      THEN Append(commaDelimStack,
                                  COMMA_DELIMITED_SYNTAX[tok.strValue])
                      ELSE commaDelimStack
                  popped ==
                      IF /\ Len(pushed) > 0
                         /\ isCharacter(tok, pushed[Len(pushed)])
                      THEN SubSeq(pushed, 1, Len(pushed) - 1)
                      ELSE pushed
              IN  IF /\ atTopLevel(popped)
                     /\ isCharacter(tok, ",")
                     /\ Len(current) > 0
                  THEN consumeParametersLoop(advance(P), popped, "",
                                             Append(parameters, current))
                  ELSE consumeParametersLoop(advance(P), popped,
                                             current \o tokenText(P), parameters)

\* The loop of consumeParameters; the locals of a pass are values, each
\* evaluated once.
consumeParametersLoop(P, commaDelimStack, current, parameters) ==
    CHOOSE looped \in
        {consumeParametersPass(l.P, l.commaDelimStack, l.current, l.parameters) :
            l \in {[P |-> P, commaDelimStack |-> commaDelimStack,
                    current |-> current, parameters |-> parameters]}} : TRUE

\* What consumeParameters does after its loop.
afterParametersLoop(looped) ==
    LET P1 == looped.P
        P2 == IF \/ ~isCharacter(token(P1), ")")
                 \/ Len(looped.commaDelimStack) > 0
              THEN error(P1, token(P1), "Unexpected end of expression")
              ELSE P1
        P3 == IF /\ P2.index < Len(P2.tokens) - 1
                 /\ ~isCharacter(P2.tokens[P2.index + 2], ",")
              THEN unexpectedToken(P2, P2.tokens[P2.index + 2])
              ELSE P2
    IN  [P |-> P3, parameters |-> looped.parameters]

\* consumeParameters returns [P |-> the parser after it, parameters |-> ..].
consumeParameters(P) ==
    IF ~isCharacter(token(P), "(")
    THEN [P |-> unexpectedToken(P, token(P)), parameters |-> <<>>]
    ELSE CHOOSE result \in
             {afterParametersLoop(looped) :
                 looped \in {consumeParametersLoop(advance(P), <<>>, "", <<>>)}} : TRUE

RECURSIVE parse(_)
\* The branch of parse() for a name followed by `(`, consumed being what
\* consumeParameters returned.
parseWithParameters(P, consumed) ==
    IF Len(consumed.P.errors) # Len(P.errors) THEN consumed.P
    ELSE parse(advance(advance(
             consumeTrigger(consumed.P, token(P), consumed.parameters))))

\* One pass of the loop of parse() and the passes after it.
parsePass(P) ==
    IF P.thrown # Null \/ ~(Len(P.tokens) > 0 /\ P.index < Len(P.tokens)) THEN P
    ELSE LET tok == token(P) IN
         IF ~isIdentifier(tok) THEN unexpectedToken(P, tok)
         ELSE IF isFollowedByOrLast(P, ",")
         THEN parse(advance(advance(consumeTrigger(P, tok, <<>>))))
         ELSE IF isFollowedByOrLast(P, "(")
         THEN CHOOSE after \in
                  {parseWithParameters(P, consumed) :
                      consumed \in {consumeParameters(advance(P))}} : TRUE
         ELSE IF P.index < Len(P.tokens) - 1
         THEN parse(advance(unexpectedToken(P, P.tokens[P.index + 2])))
         ELSE parse(advance(P))

\* parse(); the parser of a pass is a value, evaluated once.
parse(P) == CHOOSE after \in {parsePass(Q) : Q \in {P}} : TRUE

(* parseOnTrigger and parseWhenTrigger return what they leave in triggers  *)
(* and errors, and what the parser consumed (nothing for `when`).          *)
parseOnTrigger(expression, allTriggers, errs, placeholder) ==
    LET onIndex == indexOf(expression, "on")
        onSourceSpan == <<onIndex, onIndex + Len("on")>>
        prefetchSpan == getPrefetchSpan(expression)
    IN  IF onIndex = -1
        THEN [triggers |-> allTriggers,
              errors |-> Append(errs, ParseError(<<0, Len(expression)>>,
                  "Could not find " \o quoted("on") \o " keyword in expression")),
              consumed |-> <<>>, thrown |-> Null]
        ELSE LET start == getTriggerParametersStart(expression, onIndex + 1)
             IN  CHOOSE result \in
                     {[triggers |-> P.triggers, errors |-> P.errors,
                       consumed |-> P.consumed, thrown |-> P.thrown] :
                         P \in {parse(OnTriggerParser(expression, start,
                                    allTriggers, errs, placeholder, prefetchSpan,
                                    onSourceSpan))}} : TRUE

\* bindingParser.parseBinding(text, ..): the parsed binding, here its source.
parseBinding(text, absoluteOffset) == [source |-> text, offset |-> absoluteOffset]

parseWhenTrigger(expression, allTriggers, errs) ==
    LET whenIndex == indexOf(expression, "when")
        whenSourceSpan == <<whenIndex, whenIndex + Len("when")>>
        prefetchSpan == getPrefetchSpan(expression)
    IN  IF whenIndex = -1
        THEN [triggers |-> allTriggers,
              errors |-> Append(errs, ParseError(<<0, Len(expression)>>,
                  "Could not find " \o quoted("when") \o " keyword in expression")),
              consumed |-> <<>>, thrown |-> Null]
        ELSE LET start == getTriggerParametersStart(expression, whenIndex + 1)
                 parsed == parseBinding(sliceFrom(expression, start), start)
                 tracked == trackTrigger("when", allTriggers, errs,
                               DeferredTrigger("when", parsed, Null,
                                   <<0, Len(expression)>>, prefetchSpan,
                                   Some(whenSourceSpan)))
             IN  [triggers |-> tracked.triggers, errors |-> tracked.errors,
                  consumed |-> <<>>, thrown |-> Null]

(********************** parsing the parameters of a block *****************)
(* parser holds one @defer block being parsed: the block parameters still  *)
(* to parse, the placeholder of the block, the triggers map and the errors *)
(* list handed to every call, the call made last and whether it threw.     *)
(***************************************************************************)
MaxParameters == 2
MaxParameterTokens == 4
MaxTimeLength == 4

\* All concatenations of at most n members of pieces.
RECURSIVE Concatenations(_, _)
Concatenations(pieces, n) ==
    IF n = 0 THEN {""}
    ELSE LET shorter == Concatenations(pieces, n - 1)
         IN  shorter \cup {text \o piece : text \in shorter, piece \in pieces}

\* Sequences of length 1..n over S.
RECURSIVE SeqsUpTo(_, _)
SeqsUpTo(S, n) ==
    IF n = 0 THEN {}
    ELSE SeqsUpTo(S, n - 1) \cup [1..n -> S]

TriggerTexts ==
    {"idle", "idle(a)", "immediate", "immediate(a)", "timer", "timer(500)",
     "timer(2s)", "timer(2x)", "timer(1, 2)", "hover", "hover(a)",
     "hover(a, b)", "hover({a, b})", "interaction", "interaction(ref)",
     "viewport", "viewport(a)", "foo", "(", "idle("}

TimeValues == Concatenations({"0", "1", ".", "m", "s", "x"}, MaxTimeLength)

ParameterLists == Concatenations({"a", ",", "(", ")", "[", "]"}, MaxParameterTokens)

\* Parameters that come alone in a block: two triggers, a timer with a
\* generated time value, a hover with a generated parameter list.
TriggerPairs ==
    {"on " \o t1 \o sep \o t2 :
         t1 \in TriggerTexts, t2 \in TriggerTexts, sep \in {", ", " "}}
    \cup {"on foo", "prefetch on idle", "idle", "interaction"}

TimerParameters == {"on timer(" \o v \o ")" : v \in TimeValues}

HoverParameters == {"on hover(" \o l : l \in ParameterLists}

\* Parameters that come in any number and order.
BlockParameters ==
    {"on idle", "on timer(500)", "on timer(2x)", "on hover", "on hover(a, b)",
     "on hover, interaction(ref)", "on idle, timer(500)", "on", "when a",
     "prefetch when b"}

Placeholders ==
    {Null} \cup {Some([children |-> c]) :
                    c \in {<<>>, <<"Element">>, <<"Text">>, <<"Element", "Text">>}}

newBlock(params, placeholder) ==
    [params |-> params, placeholder |-> placeholder, triggers |-> NoTriggers,
     errors |-> <<>>, last |-> Null, thrown |-> Null]

InitParse ==
    /\ NoRuntime
    /\ explorer = Null
    /\ contexts = Null
    /\ migration = Null
    /\ names = Null
    /\ \/ \E placeholder \in Placeholders :
              \/ \E params \in SeqsUpTo(BlockParameters, MaxParameters) :
                     parser = newBlock(params, placeholder)
              \/ \E e \in TriggerPairs :
                     parser = newBlock(<<e>>, placeholder)
       \/ \E e \in TimerParameters : parser = newBlock(<<e>>, Null)
       \/ \E e \in HoverParameters, placeholder \in {Null, Some([children |-> <<"Element">>])} :
              parser = newBlock(<<e>>, placeholder)

\* The block after a call that left result in its triggers and errors.
parsed(fn, result) ==
    [parser EXCEPT !.params = Tail(@),
                   !.triggers = result.triggers,
                   !.errors = result.errors,
                   !.thrown = result.thrown,
                   !.last = Some([fn |-> fn, expression |-> Head(parser.params),
                                  consumed |-> result.consumed])]

\* The template parser hands the next parameter of the block to parseOnTrigger.
ParseOnTrigger ==
    /\ parser # Null
    /\ parser.thrown = Null
    /\ parser.params # <<>>
    /\ \E result \in {parseOnTrigger(Head(parser.params), parser.triggers,
                                     parser.errors, parser.placeholder)} :
          parser' = parsed("parseOnTrigger", result)
    /\ UNCHANGED <<runtimeVars, explorer, contexts, migration, names>>

\* The template parser hands the next parameter of the block to parseWhenTrigger.
ParseWhenTrigger ==
    /\ parser # Null
    /\ parser.thrown = Null
    /\ parser.params # <<>>
    /\ \E result \in {parseWhenTrigger(Head(parser.params), parser.triggers,
                                       parser.errors)} :
          parser' = parsed("parseWhenTrigger", result)
    /\ UNCHANGED <<runtimeVars, explorer, contexts, migration, names>>

NextParse == ParseOnTrigger \/ ParseWhenTrigger

SpecParse == InitParse /\ [][NextParse]_vars

(******************************** C21 *************************************)
\* The parameters of the `timer` triggers consumed with exactly one parameter.
timerValues(consumed) ==
    {consumed[k].parameters[1] :
        k \in {j \in DOMAIN consumed :
                  /\ tokenToString(consumed[j].identifier) = "timer"
                  /\ Len(consumed[j].parameters) = 1}}

\* The whole number n as a time in milliseconds.
milliseconds(n) == Some([num |-> n, scale |-> 0])

\* What the time value is read as: digits n, n then `ms`, n then `s`; no
\* digits at the start; digits and then anything else but a decimal part; a
\* decimal part and then anything but a unit.
timeValueRead(value) ==
    LET intEnd == runEnd(value, 0, Digits)
        n == digitsValue(slice(value, 0, intEnd))
        suffix == sliceFrom(value, intEnd)
        time == parseDeferredTime(value)
    IN  /\ (intEnd > 0 /\ suffix = "") => time = milliseconds(n)
        /\ (intEnd > 0 /\ suffix = "ms") => time = milliseconds(n)
        /\ (intEnd > 0 /\ suffix = "s") => time = milliseconds(n * 1000)
        /\ intEnd = 0 => time = Null
        /\ (intEnd > 0 /\ suffix \notin {"", "ms", "s"} /\ charAt(suffix, 0) # ".")
               => time = Null
        /\ (intEnd > 0 /\ suffix # "" /\ charAt(suffix, 0) = "."
              /\ sliceFrom(value, runEnd(value, intEnd + 1, Digits))
                     \notin {"", "ms", "s"})
               => time = Null

\* The messages of the errors from position k + 1 on.
messagesAfter(errs, k) == {errs[j].msg : j \in (k + 1)..Len(errs)}

\* C21: parseDeferredTime reads digits n as n milliseconds, n followed by `ms`
\* as n, n followed by `s` as n * 1000, and anything with another suffix or a
\* malformed number as null; parsing an `on` parameter, a `timer` whose one
\* parameter reads as null adds the error that the time could not be parsed
\* and stores no timer trigger, and the first `timer` that reads as a time is
\* stored with that time as its delay.
C21_TimeValuesRead ==
    (parser # Null /\ parser.params # <<>>) =>
        LET r == parseOnTrigger(Head(parser.params), parser.triggers,
                                parser.errors, parser.placeholder)
            values == timerValues(r.consumed)
            times == {parseDeferredTime(v) : v \in values}
        IN  /\ \A v \in values : timeValueRead(v)
            /\ Null \in times =>
                   ("Could not parse time value of trigger " \o quoted("timer"))
                       \in messagesAfter(r.errors, Len(parser.errors))
            /\ times = {Null} => r.triggers["timer"] = parser.triggers["timer"]
            /\ (parser.triggers["timer"] = Null /\ times \ {Null} # {}) =>
                   /\ r.triggers["timer"] # Null
                   /\ Some(r.triggers["timer"][1].value) \in times

\* `on timer(2x)` was parsed and then `on timer(500)`: the first left an
\* error and no trigger, the second a timer of 500 milliseconds.
C21_Witness ==
    /\ parser # Null /\ parser.last # Null
    /\ parser.last[1].fn = "parseOnTrigger"
    /\ parser.last[1].expression = "on timer(500)"
    /\ parser.triggers["timer"] # Null
    /\ parser.triggers["timer"][1].value = [num |-> 500, scale |-> 0]
    /\ Len(parser.errors) = 1
    /\ parser.errors[1].msg = "Could not parse time value of trigger " \o quoted("timer")

(******************************** C22 *************************************)
\* The kind a consumed declaration names.
declaredKind(call) == tokenToString(call.identifier)

\* A declaration that passes the validation of its kind.
legalDeclaration(call, placeholder) ==
    LET kind == declaredKind(call)
        parameters == call.parameters
    IN  CASE kind \in {"idle", "immediate"} -> Len(parameters) = 0
          [] kind = "timer" ->
                Len(parameters) = 1 /\ parseDeferredTime(parameters[1]) # Null
          [] kind \in {"hover", "interaction", "viewport"} ->
                \/ Len(parameters) = 1
                \/ /\ Len(parameters) = 0
                   /\ placeholder # Null
                   /\ placeholder[1].children = <<"Element">>
          [] OTHER -> FALSE

\* The value of the descriptor a legal declaration creates.
declaredValue(call) ==
    CASE declaredKind(call) \in {"idle", "immediate"} -> Null
      [] declaredKind(call) = "timer" -> parseDeferredTime(call.parameters[1])[1]
      [] OTHER -> firstOrNull(call.parameters)

\* The positions in consumed of the declarations of kind, all or legal only.
declarationsOf(kind, consumed) ==
    {j \in DOMAIN consumed : declaredKind(consumed[j]) = kind}

legalDeclarationsOf(kind, consumed, placeholder) ==
    {j \in declarationsOf(kind, consumed) :
        legalDeclaration(consumed[j], placeholder)}

\* The number of errors after the first k that say kind is a duplicate.
duplicateErrors(kind, errs, k) ==
    Cardinality({j \in (k + 1)..Len(errs) :
        errs[j].msg = "Duplicate " \o quoted(kind) \o " trigger is not allowed"})

\* Parsing the next `on` parameter keeps the first descriptor of each kind:
\* a kind already present keeps its descriptor, a kind not yet present gets
\* the descriptor of its first legal declaration, and the declarations in
\* later(kind, ..) of a kind present by then add one Duplicate error each.
keepsFirst(later(_, _, _)) ==
    LET r == parseOnTrigger(Head(parser.params), parser.triggers,
                            parser.errors, parser.placeholder)
    IN  \A kind \in OnTriggerType :
          LET legal == legalDeclarationsOf(kind, r.consumed, parser.placeholder)
              first == CHOOSE j \in legal : \A l \in legal : j <= l
              present == parser.triggers[kind] # Null
              after == IF present THEN 0
                       ELSE IF legal = {} THEN Len(r.consumed) ELSE first
          IN  /\ present => r.triggers[kind] = parser.triggers[kind]
              /\ (~present /\ legal = {}) => r.triggers[kind] = Null
              /\ (~present /\ legal # {}) =>
                     /\ r.triggers[kind] # Null
                     /\ r.triggers[kind][1].kind = kind
                     /\ r.triggers[kind][1].value = declaredValue(r.consumed[first])
              /\ duplicateErrors(kind, r.errors, Len(parser.errors)) =
                     Cardinality({j \in later(kind, r.consumed, parser.placeholder) :
                                     j > after})

\* Parsing the next parameter as a `when` keeps a `when` already present and
\* adds one Duplicate error, or stores the binding.
whenKeepsFirst ==
    LET e == Head(parser.params)
        r == parseWhenTrigger(e, parser.triggers, parser.errors)
        found == indexOf(e, "when") # -1
        present == parser.triggers["when"] # Null
    IN  /\ \A kind \in OnTriggerType : r.triggers[kind] = parser.triggers[kind]
        /\ present => r.triggers["when"] = parser.triggers["when"]
        /\ (~present /\ found) => r.triggers["when"] # Null
        /\ duplicateErrors("when", r.errors, Len(parser.errors)) =
               IF present /\ found THEN 1 ELSE 0

\* C22 as stated: in one triggers map every kind holds at most one descriptor,
\* the first valid one declared, and every later declaration of a kind that is
\* already present appends exactly one Duplicate error and leaves the stored
\* descriptor unchanged.
C22_EveryLaterDeclarationIsDuplicate ==
    (parser # Null /\ parser.params # <<>>) =>
        keepsFirst(LAMBDA kind, consumed, placeholder :
                       declarationsOf(kind, consumed)) /\ whenKeepsFirst

\* C22, amended: ... every later declaration that is itself valid appends
\* exactly one Duplicate error (an invalid one appends its own validation
\* error instead), and the stored descriptor is left unchanged either way.
C22_EveryLaterValidDeclarationIsDuplicate ==
    (parser # Null /\ parser.params # <<>>) =>
        keepsFirst(legalDeclarationsOf) /\ whenKeepsFirst

\* A block whose two parameters both read `on idle, timer(500)` was parsed:
\* idle and timer are stored and the second parameter added one Duplicate
\* error for each of them.
C22_Witness ==
    /\ parser # Null /\ parser.last # Null /\ parser.params = <<>>
    /\ parser.last[1].expression = "on idle, timer(500)"
    /\ parser.triggers["idle"] # Null
    /\ parser.triggers["timer"] # Null
    /\ duplicateErrors("idle", parser.errors, 0) = 1
    /\ duplicateErrors("timer", parser.errors, 0) = 1

(******************************** C23 *************************************)
\* Where the triggers of an `on` parameter start.
onTriggersStart(expression) ==
    getTriggerParametersStart(expression, indexOf(expression, "on") + 1)

\* The span of the name of a consumed declaration.
declaredNameSpan(expression, call) ==
    <<onTriggersStart(expression) + call.identifier.index,
      onTriggersStart(expression) + call.identifier.end>>

\* The parameter count of the declaration is legal for its kind.
legalParameterCount(call) ==
    LET kind == declaredKind(call)
        parameters == call.parameters
    IN  CASE kind \in {"idle", "immediate"} -> Len(parameters) = 0
          [] kind = "timer" ->
                Len(parameters) = 1 /\ parseDeferredTime(parameters[1]) # Null
          [] kind \in {"hover", "interaction", "viewport"} -> Len(parameters) <= 1
          [] OTHER -> FALSE

\* What the error of an illegal parameter count says.
parameterCountMessage(call) ==
    LET kind == declaredKind(call)
    IN  CASE kind \in {"idle", "immediate"} ->
                quoted(kind) \o " trigger cannot have parameters"
          [] kind = "timer" ->
                IF Len(call.parameters) # 1
                THEN quoted(kind) \o " trigger must have exactly one parameter"
                ELSE "Could not parse time value of trigger " \o quoted(kind)
          [] OTHER -> quoted(kind) \o " trigger can only have zero or one parameters"

\* The descriptor stored for the kind of the declaration is the one of this
\* very declaration.
storedBy(expression, call, before, after) ==
    LET kind == declaredKind(call)
    IN  /\ before[kind] = Null
        /\ after[kind] # Null
        /\ after[kind][1].nameSpan = declaredNameSpan(expression, call)

\* C23: a declaration of a known kind whose parameter count is not legal for
\* the kind (idle, immediate: none; timer: one parseable time; hover,
\* interaction, viewport: none or one) adds its error at the name of the
\* trigger and stores nothing; what is stored has a legal parameter count.
C23_IllegalParameterCountStoresNothing ==
    (parser # Null /\ parser.params # <<>>) =>
        LET e == Head(parser.params)
            r == parseOnTrigger(e, parser.triggers, parser.errors,
                                parser.placeholder)
        IN  \A j \in DOMAIN r.consumed :
              LET call == r.consumed[j]
              IN  (declaredKind(call) \in OnTriggerType
                     /\ ~legalParameterCount(call)) =>
                      /\ ~storedBy(e, call, parser.triggers, r.triggers)
                      /\ \E k \in (Len(parser.errors) + 1)..Len(r.errors) :
                            /\ r.errors[k].span = declaredNameSpan(e, call)
                            /\ r.errors[k].msg = parameterCountMessage(call)

\* `on hover(a, b)` was parsed and then `on hover, interaction(ref)`: the
\* first left the error and no trigger, the second stored two triggers.
C23_Witness ==
    /\ parser # Null /\ parser.last # Null
    /\ parser.last[1].expression = "on hover, interaction(ref)"
    /\ parser.triggers["hover"] # Null
    /\ parser.triggers["hover"][1].value = Null
    /\ parser.triggers["interaction"] # Null
    /\ parser.triggers["interaction"][1].value = Some("ref")
    /\ Len(parser.errors) = 1
    /\ parser.errors[1].msg =
           quoted("hover") \o " trigger can only have zero or one parameters"

(******************************** C24 *************************************)
\* The block has a placeholder whose children are exactly one element.
oneElementPlaceholder(placeholder) ==
    placeholder # Null /\ placeholder[1].children = <<"Element">>

\* What the error of a reference-less trigger says.
noParametersMessages(kind) ==
    {quoted(kind) \o
         " trigger with no parameters can only be placed on an @defer that has a @placeholder block",
     quoted(kind) \o
         " trigger with no parameters can only be placed on an @defer that has a " \o
         "@placeholder block with exactly one root element node"}

\* The errors added after the first k at the given span.
errorsAt(errs, k, span) ==
    {errs[j].msg : j \in {l \in (k + 1)..Len(errs) : errs[l].span = span}}

\* C24: a hover, interaction or viewport trigger with no parameter is accepted
\* only on a block whose placeholder has exactly one child, an element;
\* otherwise it adds its error and stores nothing. With one parameter the
\* placeholder is not consulted: the validation passes whatever it is.
C24_NoParameterNeedsOneElementPlaceholder ==
    (parser # Null /\ parser.params # <<>>) =>
        LET e == Head(parser.params)
            r == parseOnTrigger(e, parser.triggers, parser.errors,
                                parser.placeholder)
        IN  \A j \in DOMAIN r.consumed :
              LET call == r.consumed[j]
                  kind == declaredKind(call)
                  added == errorsAt(r.errors, Len(parser.errors),
                                    declaredNameSpan(e, call))
              IN  kind \in {"hover", "interaction", "viewport"} =>
                    /\ (Len(call.parameters) = 0
                          /\ ~oneElementPlaceholder(parser.placeholder)) =>
                           /\ added \cap noParametersMessages(kind) # {}
                           /\ ~storedBy(e, call, parser.triggers, r.triggers)
                    /\ (Len(call.parameters) = 0
                          /\ oneElementPlaceholder(parser.placeholder)) =>
                           added \cap noParametersMessages(kind) = {}
                    /\ Len(call.parameters) = 1 =>
                           /\ added \cap noParametersMessages(kind) = {}
                           /\ \A placeholder \in Placeholders :
                                validateReferenceBasedTrigger(kind,
                                    call.parameters, placeholder) = Return(Null)

\* `on hover` was parsed for a block whose placeholder has an element and a
\* text node, and then `on hover(a, b)`: no trigger, and the first error is
\* the one about the root element node.
C24_Witness ==
    /\ parser # Null /\ parser.last # Null
    /\ parser.last[1].expression = "on hover(a, b)"
    /\ parser.placeholder = Some([children |-> <<"Element", "Text">>])
    /\ parser.triggers["hover"] = Null
    /\ Len(parser.errors) = 2
    /\ parser.errors[1].msg \in noParametersMessages("hover")

(************************ parameter lists, by nesting **********************)
(* What a parameter list is by the nesting of its brackets, not by the     *)
(* loop of consumeParameters: positions are those of the token sequence,   *)
(* from 1.                                                                 *)
(***************************************************************************)
Openers == {"(", "[", "{"}

Closers == {")", "]", "}"}

\* The tokens of the triggers of an `on` parameter.
onTokens(expression) == tokenize(sliceFrom(expression, onTriggersStart(expression)))

\* The brackets among the tokens a..b, in order, as one string.
RECURSIVE bracketsOf(_, _, _)
bracketsOf(tokens, a, b) ==
    IF a > b THEN ""
    ELSE (IF tokens[a].type = "Character"
             /\ tokens[a].strValue \in Openers \cup Closers
          THEN tokens[a].strValue ELSE "") \o bracketsOf(tokens, a + 1, b)

\* A string of brackets with every adjacent matching pair removed, repeatedly.
RECURSIVE unmatched(_)
unmatched(brackets) ==
    LET pairs == {k \in 0..(Len(brackets) - 2) :
                     slice(brackets, k, k + 2) \in {"()", "[]", "{}"}}
    IN  IF pairs = {} THEN brackets
        ELSE LET k == CHOOSE j \in pairs : TRUE
             IN  unmatched(slice(brackets, 0, k) \o sliceFrom(brackets, k + 2))

\* Every bracket among the tokens a..b is matched: nesting depth zero after b.
balanced(tokens, a, b) == unmatched(bracketsOf(tokens, a, b)) = ""

\* The brackets among the tokens a..b nest properly, some perhaps still open.
nested(tokens, a, b) ==
    LET open == unmatched(bracketsOf(tokens, a, b))
    IN  \A k \in 0..(Len(open) - 1) : charAt(open, k) \in Openers

\* The first `)` at depth zero of the list that opens at position o; 0 if none.
listEnd(tokens, o) ==
    LET ends == {m \in (o + 1)..Len(tokens) :
                    /\ isCharacter(tokens[m], ")")
                    /\ balanced(tokens, o + 1, m - 1)
                    /\ \A l \in (o + 1)..(m - 1) : nested(tokens, o + 1, l)}
    IN  IF ends = {} THEN 0 ELSE CHOOSE m \in ends : \A l \in ends : m <= l

\* The list that opens at o is never closed: the tokens end with a bracket
\* still open or without the closing `)`.
unterminated(tokens, o) ==
    /\ listEnd(tokens, o) = 0
    /\ nested(tokens, o + 1, Len(tokens))

\* The texts between the commas at depth zero among the tokens a..b of a
\* list that opens at position o.
RECURSIVE segments(_, _, _, _, _)
segments(tokens, o, a, b, current) ==
    IF a > b THEN <<current>>
    ELSE IF isCharacter(tokens[a], ",") /\ balanced(tokens, o + 1, a - 1)
    THEN <<current>> \o segments(tokens, o, a + 1, b, "")
    ELSE segments(tokens, o, a + 1, b, current \o tokens[a].strValue)

\* The parameters of the list that opens at o and ends at m.
listParameters(tokens, o, m) ==
    IF m = o + 1 THEN <<>> ELSE segments(tokens, o, o + 1, m - 1, "")

\* The expression starts with a trigger name and an opening parenthesis.
startsWithList(tokens) ==
    /\ Len(tokens) >= 2
    /\ isIdentifier(tokens[1])
    /\ isCharacter(tokens[2], "(")

(******************************** C25 *************************************)
\* Both parsers return normally for the next parameter, only append to the
\* errors, and report a missing keyword, a first token that is no trigger
\* name and every declaration that fails the validation of its kind.
returnsAndReports ==
    LET e == Head(parser.params)
        k == Len(parser.errors)
        on == parseOnTrigger(e, parser.triggers, parser.errors,
                             parser.placeholder)
        wh == parseWhenTrigger(e, parser.triggers, parser.errors)
    IN  /\ on.thrown = Null /\ wh.thrown = Null
        /\ SubSeq(on.errors, 1, k) = parser.errors
        /\ SubSeq(wh.errors, 1, k) = parser.errors
        /\ indexOf(e, "on") = -1 =>
               /\ on.triggers = parser.triggers
               /\ on.errors = Append(parser.errors, ParseError(<<0, Len(e)>>,
                      "Could not find " \o quoted("on") \o " keyword in expression"))
        /\ indexOf(e, "when") = -1 =>
               /\ wh.triggers = parser.triggers
               /\ wh.errors = Append(parser.errors, ParseError(<<0, Len(e)>>,
                      "Could not find " \o quoted("when") \o " keyword in expression"))
        /\ (indexOf(e, "on") # -1 /\ onTokens(e) # <<>>
              /\ ~isIdentifier(onTokens(e)[1])) =>
               /\ on.triggers = parser.triggers
               /\ ("Unexpected token " \o quoted(tokenToString(onTokens(e)[1])))
                      \in messagesAfter(on.errors, k)
        /\ \A j \in DOMAIN on.consumed :
              (declaredKind(on.consumed[j]) \in OnTriggerType
                 /\ ~legalDeclaration(on.consumed[j], parser.placeholder)) =>
                  errorsAt(on.errors, k, declaredNameSpan(e, on.consumed[j])) # {}

\* A declaration of an unknown kind is reported at the span of its token.
unknownKeywordReported ==
    LET e == Head(parser.params)
        on == parseOnTrigger(e, parser.triggers, parser.errors,
                             parser.placeholder)
    IN  \A j \in DOMAIN on.consumed :
          LET call == on.consumed[j]
          IN  declaredKind(call) \notin OnTriggerType =>
                \E l \in (Len(parser.errors) + 1)..Len(on.errors) :
                   /\ on.errors[l].msg =
                          "Unrecognized trigger type " \o quoted(declaredKind(call))
                   /\ on.errors[l].span[1] >= 0
                   /\ slice(e, on.errors[l].span[1], on.errors[l].span[2]) =
                          call.identifier.strValue

\* A parameter list that is never closed is reported.
unterminatedListReported ==
    LET e == Head(parser.params)
        on == parseOnTrigger(e, parser.triggers, parser.errors,
                             parser.placeholder)
    IN  (indexOf(e, "on") # -1 /\ startsWithList(onTokens(e))
           /\ unterminated(onTokens(e), 2)) =>
            "Unexpected end of expression"
                \in messagesAfter(on.errors, Len(parser.errors))

\* C25: parseOnTrigger and parseWhenTrigger never throw, whatever the
\* expression: a missing keyword, an unknown trigger keyword (reported at the
\* span of the offending token), an unexpected token, an unterminated
\* parameter list and every failed validation end as errors appended to the
\* list, and the call returns normally.
C25_EveryFailureIsAnError ==
    (parser # Null /\ parser.params # <<>>) =>
        returnsAndReports /\ unknownKeywordReported /\ unterminatedListReported

\* The part of C25 that holds: the calls return normally, only append to the
\* errors, and report missing keywords, a first token that is no name and
\* failed validations.
C25_CallsReturnNormally ==
    (parser # Null /\ parser.params # <<>>) => returnsAndReports

\* The unknown keyword is reported at its span whenever the triggers of the
\* parameter have a start (some text follows the keyword and a separator).
C25_UnknownKeywordAtItsSpan ==
    (parser # Null /\ parser.params # <<>>
       /\ indexOf(Head(parser.params), "on") # -1
       /\ onTriggersStart(Head(parser.params)) # -1) => unknownKeywordReported

(******************************** C26 *************************************)
\* The first trigger of the parameter has a list that is closed, followed by
\* a comma or nothing, with no empty text before a comma: the trigger is
\* consumed with the texts between the commas at depth zero as parameters.
splitsAtDepthZero ==
    LET e == Head(parser.params)
        on == parseOnTrigger(e, parser.triggers, parser.errors,
                             parser.placeholder)
        tokens == onTokens(e)
        m == listEnd(tokens, 2)
        expected == listParameters(tokens, 2, m)
    IN  (/\ indexOf(e, "on") # -1
         /\ startsWithList(tokens)
         /\ m # 0
         /\ m = Len(tokens) \/ isCharacter(tokens[m + 1], ",")
         /\ \A k \in DOMAIN expected : expected[k] # "") =>
            /\ on.consumed # <<>>
            /\ on.consumed[1].identifier = tokens[1]
            /\ on.consumed[1].parameters = expected

\* The parameter is parsed without an unexpected token or end and its
\* brackets are balanced: one trigger is consumed for the first name and one
\* after every comma outside the parameter lists.
commasSeparateTriggers ==
    LET e == Head(parser.params)
        on == parseOnTrigger(e, parser.triggers, parser.errors,
                             parser.placeholder)
        tokens == onTokens(e)
        added == messagesAfter(on.errors, Len(parser.errors))
        commas == {m \in 1..(Len(tokens) - 1) :
                      isCharacter(tokens[m], ",") /\ balanced(tokens, 1, m - 1)}
    IN  (/\ indexOf(e, "on") # -1
         /\ tokens # <<>>
         /\ balanced(tokens, 1, Len(tokens))
         /\ \A msg \in added : ~startsWith(msg, "Unexpected")) =>
            /\ Len(on.consumed) = 1 + Cardinality(commas)
            /\ \A j \in DOMAIN on.consumed :
                  \/ j = 1 /\ on.consumed[j].identifier = tokens[1]
                  \/ \E m \in commas : on.consumed[j].identifier = tokens[m + 1]

\* C26: in a parameter list a comma splits the parameters only at nesting
\* depth zero, commas inside balanced (), [] or {} stay in the parameter and
\* the list ends at the first `)` at depth zero; a list that reaches the end
\* of the tokens with a bracket open or without its closing `)` gives an
\* 'Unexpected end of expression' error; commas outside the lists separate
\* the triggers.
C26_ListsSplitAndUnterminatedListsFail ==
    (parser # Null /\ parser.params # <<>>) =>
        splitsAtDepthZero /\ commasSeparateTriggers /\ unterminatedListReported

\* The part of C26 that holds: the splitting of closed lists and of triggers.
C26_ListsSplitAtDepthZero ==
    (parser # Null /\ parser.params # <<>>) =>
        splitsAtDepthZero /\ commasSeparateTriggers

\* The unterminated lists that are reported: those the tokens leave with a
\* bracket open or that have no `)` at all.
C26_OpenListsFail ==
    (parser # Null /\ parser.params # <<>>) =>
        LET e == Head(parser.params)
            tokens == onTokens(e)
            on == parseOnTrigger(e, parser.triggers, parser.errors,
                                 parser.placeholder)
        IN  (/\ indexOf(e, "on") # -1
             /\ startsWithList(tokens)
             /\ unterminated(tokens, 2)
             /\ ~isCharacter(tokens[Len(tokens)], ")")) =>
                "Unexpected end of expression"
                    \in messagesAfter(on.errors, Len(parser.errors))

(********************** DirectiveExplorerComponent ************************)
(* devtools/projects/ng-devtools/src/lib/devtools-tabs/directive-explorer/ *)
(* directive-explorer.component.ts. explorer holds the fields of the       *)
(* component, the frames of the FrameManager, the properties held by the   *)
(* ElementPropertyResolver, the pending retry timer, and the messages      *)
(* emitted and the ApplicationOperations calls made by the last handler.   *)
(***************************************************************************)
\* IndexedNode: position, component (null or its id) and directives.
IndexedNode(position, component, directives) ==
    [position |-> position, component |-> component, directives |-> directives]

Directive(id, name) == [id |-> id, name |-> name]

Nodes ==
    {IndexedNode(<<0, 0>>, Some(1), <<Directive(2, "ngFor")>>),
     IndexedNode(<<0, 1>>, Some(1), <<Directive(2, "ngFor"), Directive(3, "ngIf")>>),
     IndexedNode(<<1>>, Some(4), <<Directive(2, "ngFor")>>),
     IndexedNode(<<2>>, Null, <<Directive(2, "ngFor")>>)}

DirectiveNames == {"ngFor", "ngIf", "other"}

FrameIds == {0, 1}

FrameUrls == {"http://localhost:4200/url", "http://localhost:4200/url2"}

directiveIds(node) == {node.directives[k].id : k \in DOMAIN node.directives}

equalDirectives(a, b) ==
    a.component = b.component /\ directiveIds(a) = directiveIds(b)

sameDirectives(a, b) ==
    IF (a.component # Null /\ b.component = Null)
          \/ (a.component = Null /\ b.component # Null)
    THEN FALSE
    ELSE IF a.component # Null /\ b.component # Null /\ a.component # b.component
    THEN FALSE
    ELSE \A k \in DOMAIN b.directives : b.directives[k].id \in directiveIds(a)

\* FrameManager.selectedFrame and FrameManager.frameHasUniqueUrl
selectedFrame(e) ==
    IF e.selectedFrameId = Null THEN Null
    ELSE IF e.selectedFrameId[1] \in DOMAIN e.frames
    THEN Some([id |-> e.selectedFrameId[1], url |-> e.frames[e.selectedFrameId[1]]])
    ELSE Null

frameHasUniqueUrl(e, frame) ==
    /\ frame # Null
    /\ Cardinality({id \in DOMAIN e.frames : e.frames[id] = frame[1].url}) = 1

callsAnyFrame(e, frame) == TRUE

\* if (!this._frameManager.frameHasUniqueUrl(selectedFrame)) .. return
mayOperateOn(e, frame) == frameHasUniqueUrl(e, frame)

InitExplorer ==
    [clickedElement |-> Null, currentSelectedElement |-> Null, forest |-> Null,
     showHydrationNodeHighlights |-> FALSE, refreshRetryTimeout |-> Null,
     retryTimers |-> {}, throttled |-> FALSE,
     subscribed |-> FALSE, properties |-> Null,
     frames |-> <<>>, selectedFrameId |-> Null,
     emitted |-> <<>>, operations |-> <<>>]

\* this._messageBus.emit(topic, args)
emit(e, topic, args) ==
    [e EXCEPT !.emitted = Append(@, [topic |-> topic, args |-> args])]

\* The handler starts: nothing emitted or called by it yet.
handling(e) == [e EXCEPT !.emitted = <<>>, !.operations = <<>>]

refreshHydrationNodeHighlightsIfNeeded(e) ==
    IF e.showHydrationNodeHighlights
    THEN emit(emit(e, "removeHydrationOverlay", <<>>), "createHydrationOverlay", <<>>)
    ELSE e

_getPropertyQuery(e) ==
    IF \/ e.clickedElement = Null
       \/ e.currentSelectedElement = Null
       \/ ~sameDirectives(e.clickedElement[1], e.currentSelectedElement[1])
    THEN [type |-> "All"]
    ELSE [type |-> "Specified", properties |-> e.properties]

_constructViewQuery(e) ==
    IF e.clickedElement = Null THEN Null
    ELSE Some([selectedElement |-> e.clickedElement[1].position,
               propertyQuery |-> _getPropertyQuery(e)])

\* setTimeout and clearTimeout: retryTimers are the ids of the timers that
\* have not fired; clearing an id that has fired does nothing.
setTimeout(e) ==
    CHOOSE id \in 1..(Cardinality(e.retryTimers) + 1) : id \notin e.retryTimers

clearTimeout(e, id) == [e EXCEPT !.retryTimers = @ \ {id}]

\* success is what emit returns: false when the message bus throttled it
\* (throttled: what the last emit of the refresh returned, history).
refresh(e, success) ==
    LET e0 == emit(e, "getLatestComponentExplorerView", <<_constructViewQuery(e)>>)
        e1 == [e0 EXCEPT !.throttled = ~success]
    IN  IF success
        THEN [(IF e1.refreshRetryTimeout # Null
               THEN clearTimeout(e1, e1.refreshRetryTimeout[1]) ELSE e1)
                 EXCEPT !.refreshRetryTimeout = Null]
        ELSE refreshHydrationNodeHighlightsIfNeeded(
                 IF e1.refreshRetryTimeout = Null
                 THEN [e1 EXCEPT !.refreshRetryTimeout = Some(setTimeout(e1)),
                                 !.retryTimers = @ \cup {setTimeout(e1)}]
                 ELSE e1)

handleNodeSelection(e, node, success) ==
    IF node # Null
    THEN LET e1 == IF /\ e.clickedElement # Null
                      /\ ~sameDirectives(e.clickedElement[1], node[1])
                   THEN [e EXCEPT !.properties = Null] ELSE e
             e2 == [e1 EXCEPT !.clickedElement = node]
         IN  refresh(emit(e2, "setSelectedComponent", <<node[1].position>>), success)
    ELSE [e EXCEPT !.clickedElement = Null, !.currentSelectedElement = Null]

\* The listener of 'latestComponentExplorerView'
latestComponentExplorerView(e, view) ==
    LET e1 == [e EXCEPT !.forest = Some(view.forest),
                        !.currentSelectedElement = e.clickedElement]
    IN  IF view.properties # Null /\ e1.currentSelectedElement # Null
        THEN [e1 EXCEPT !.properties =
                 Some([of |-> e1.currentSelectedElement[1].position,
                       properties |-> view.properties[1]])]
        ELSE e1

\* directives.findIndex((directive) => directive.name === directiveName)
findIndex(directives, directiveName) ==
    LET found == {k \in DOMAIN directives : directives[k].name = directiveName}
    IN  IF found = {} THEN -1
        ELSE (CHOOSE k \in found : \A l \in found : k <= l) - 1

operate(e, operation, args) ==
    [e EXCEPT !.operations = Append(@, [operation |-> operation, args |-> args])]

\* this._appOperations.<operation>(.., new URL(selectedFrame!.url)): reading
\* the url of a null frame throws before the call is made.
operateOnFrame(e, frame, operation, args) ==
    IF frame = Null THEN e
    ELSE operate(e, operation, Append(args, frame[1].url))

warn(e, what) ==
    emit(e, "log", <<[level |-> "warn",
        message |-> "The currently inspected frame does not have a unique url on this page. "
                        \o what]>>)

viewSource(e, directiveName) ==
    IF e.currentSelectedElement = Null THEN e
    ELSE LET directiveIndex ==
                 findIndex(e.currentSelectedElement[1].directives, directiveName)
             frame == selectedFrame(e)
         IN  IF ~mayOperateOn(e, frame) THEN warn(e, "Cannot view source.")
             ELSE operateOnFrame(e, frame, "viewSource",
                      <<e.currentSelectedElement[1].position,
                        IF directiveIndex # -1 THEN Some(directiveIndex) ELSE Null>>)

handleSelectDomElement(e, node) ==
    LET frame == selectedFrame(e)
    IN  IF ~mayOperateOn(e, frame) THEN warn(e, "Cannot select DOM element.")
        ELSE operateOnFrame(e, frame, "selectDomElement", <<node.position>>)

inspect(e, objectPath, directivePosition) ==
    LET frame == selectedFrame(e)
    IN  IF ~mayOperateOn(e, frame) THEN warn(e, "Cannot inspect object.")
        ELSE operateOnFrame(e, frame, "inspect", <<directivePosition, objectPath>>)

\* FrameManager: the first frame whose content script connects is inspected,
\* a frame that disconnects is forgotten and the top-level frame inspected.
TOP_LEVEL_FRAME_ID == 0

addFrame(e, frameId, url) ==
    [e EXCEPT !.frames = [id \in DOMAIN e.frames \cup {frameId} |->
                              IF id = frameId THEN url ELSE e.frames[id]]]

removeFrame(e, frameId) ==
    [e EXCEPT !.frames = [id \in DOMAIN e.frames \ {frameId} |-> e.frames[id]]]

\* inspectFrame emits 'enableFrameConnection'; the 'frameConnected' answer
\* selects the frame.
inspectFrame(e, frameId) ==
    [emit(e, "enableFrameConnection", <<frameId>>)
        EXCEPT !.selectedFrameId = Some(frameId)]

contentScriptConnected(e, frameId, url) ==
    LET e1 == addFrame(e, frameId, url)
    IN  IF Cardinality(DOMAIN e1.frames) = 1 THEN inspectFrame(e1, frameId) ELSE e1

contentScriptDisconnected(e, frameId) ==
    IF frameId \notin DOMAIN e.frames THEN e
    ELSE LET e1 == removeFrame(e, frameId)
         IN  IF e.selectedFrameId = Some(frameId)
             THEN inspectFrame(e1, TOP_LEVEL_FRAME_ID)
             ELSE e1

ObjectPaths == {<<"value">>, <<"form", "value">>}

DirectivePositions ==
    {[element |-> <<0, 0>>, directive |-> Null],
     [element |-> <<0, 1>>, directive |-> Some(1)]}

Views == {[forest |-> "forest", properties |-> p] : p \in {Null, Some("properties")}}

InitExplorerSpec ==
    /\ NoRuntime
    /\ parser = Null
    /\ contexts = Null
    /\ migration = Null
    /\ names = Null
    /\ explorer = InitExplorer

Handled(e) == explorer' = e /\ UNCHANGED <<runtimeVars, parser, contexts, migration, names>>

Created == explorer # Null /\ explorer.subscribed

NgOnInit ==
    /\ explorer # Null /\ ~explorer.subscribed
    /\ \E success \in BOOLEAN :
           Handled(refresh([handling(explorer) EXCEPT !.subscribed = TRUE], success))

HandleNodeSelection ==
    /\ Created
    /\ \E node \in {Null} \cup {Some(n) : n \in Nodes}, success \in BOOLEAN :
           Handled(handleNodeSelection(handling(explorer), node, success))

LatestComponentExplorerView ==
    /\ Created
    /\ \E view \in Views : Handled(latestComponentExplorerView(handling(explorer), view))

ComponentTreeDirty ==
    /\ Created
    /\ \E success \in BOOLEAN : Handled(refresh(handling(explorer), success))

\* The callback of setTimeout(() => this.refresh(), 500)
RefreshRetry ==
    /\ Created
    /\ \E id \in explorer.retryTimers, success \in BOOLEAN :
           Handled(refresh([handling(explorer) EXCEPT !.retryTimers = @ \ {id}], success))

ToggleHydrationNodeHighlights ==
    /\ Created
    /\ Handled([handling(explorer) EXCEPT !.showHydrationNodeHighlights = ~@])

ViewSource ==
    /\ Created
    /\ \E directiveName \in DirectiveNames :
           Handled(viewSource(handling(explorer), directiveName))

HandleSelectDomElement ==
    /\ Created
    /\ \E node \in Nodes : Handled(handleSelectDomElement(handling(explorer), node))

Inspect ==
    /\ Created
    /\ \E objectPath \in ObjectPaths, directivePosition \in DirectivePositions :
           Handled(inspect(handling(explorer), objectPath, directivePosition))

ContentScriptConnected ==
    /\ explorer # Null
    /\ \E frameId \in FrameIds, url \in FrameUrls :
           Handled(contentScriptConnected(handling(explorer), frameId, url))

ContentScriptDisconnected ==
    /\ explorer # Null
    /\ \E frameId \in FrameIds :
           Handled(contentScriptDisconnected(handling(explorer), frameId))

NextExplorer ==
    \/ NgOnInit
    \/ HandleNodeSelection
    \/ LatestComponentExplorerView
    \/ ComponentTreeDirty
    \/ RefreshRetry
    \/ ToggleHydrationNodeHighlights
    \/ ViewSource
    \/ HandleSelectDomElement
    \/ Inspect
    \/ ContentScriptConnected
    \/ ContentScriptDisconnected

SpecExplorer == InitExplorerSpec /\ [][NextExplorer]_vars

\* The selected frame is a known frame and no other frame has its url.
selectedFrameIsUnique ==
    /\ explorer.selectedFrameId # Null
    /\ explorer.selectedFrameId[1] \in DOMAIN explorer.frames
    /\ \A id \in DOMAIN explorer.frames \ {explorer.selectedFrameId[1]} :
           explorer.frames[id] # explorer.frames[explorer.selectedFrameId[1]]

warnings(e) ==
    {k \in DOMAIN e.emitted :
        e.emitted[k].topic = "log" /\ e.emitted[k].args[1].level = "warn"}

\* The handler called exactly this operation, with the url of the selected
\* frame, and emitted nothing.
calledOnly(e, operation, args) ==
    /\ e.operations =
           <<[operation |-> operation,
              args |-> Append(args, explorer.frames[explorer.selectedFrameId[1]])]>>
    /\ e.emitted = <<>>

\* The handler called no operation and emitted one 'warn' log message.
warnedOnly(e) ==
    /\ e.operations = <<>>
    /\ Len(e.emitted) = 1
    /\ warnings(e) = {1}

operatesOrWarns(e, operation, args) ==
    IF selectedFrameIsUnique THEN calledOnly(e, operation, args) ELSE warnedOnly(e)

\* C27: viewSource, handleSelectDomElement and inspect call their
\* ApplicationOperations method, once and with the url of the selected frame,
\* exactly when the selected frame has a unique url on the page; otherwise
\* they call no operation and emit one 'warn' log message; viewSource with no
\* selected element calls and emits nothing.
C27_OperationsOnlyOnUniqueFrame ==
    Created =>
        /\ \A directiveName \in DirectiveNames :
               LET e == viewSource(handling(explorer), directiveName)
                   selected == explorer.currentSelectedElement
               IN  IF selected = Null
                   THEN e = handling(explorer)
                   ELSE operatesOrWarns(e, "viewSource",
                            <<selected[1].position,
                              IF \E k \in DOMAIN selected[1].directives :
                                     selected[1].directives[k].name = directiveName
                              THEN Some(findIndex(selected[1].directives, directiveName))
                              ELSE Null>>)
        /\ \A node \in Nodes :
               operatesOrWarns(handleSelectDomElement(handling(explorer), node),
                               "selectDomElement", <<node.position>>)
        /\ \A objectPath \in ObjectPaths, directivePosition \in DirectivePositions :
               operatesOrWarns(inspect(handling(explorer), objectPath, directivePosition),
                               "inspect", <<directivePosition, objectPath>>)

\* Two frames are connected and viewSource has just been called for the
\* second directive of the selected element.
C27_Witness ==
    /\ Created
    /\ Cardinality(DOMAIN explorer.frames) = 2
    /\ selectedFrameIsUnique
    /\ explorer.currentSelectedElement # Null
    /\ Len(explorer.operations) = 1
    /\ explorer.operations[1].operation = "viewSource"
    /\ explorer.operations[1].args[2] = Some(1)

\* What handleNodeSelection(node) emits first.
selectionEmitted(node, success) ==
    handleNodeSelection(handling(explorer), Some(node), success).emitted

viewRequested(emitted, k) ==
    /\ Len(emitted) >= k
    /\ emitted[k].topic = "getLatestComponentExplorerView"
    /\ Len(emitted[k].args) = 1

\* 'setSelectedComponent' with the position, then the view request with a
\* query for that position.
emitsSelectionThenRequest(node, success) ==
    LET emitted == selectionEmitted(node, success)
    IN  /\ viewRequested(emitted, 2)
        /\ emitted[1] = [topic |-> "setSelectedComponent", args |-> <<node.position>>]
        /\ emitted[2].args[1] # Null
        /\ emitted[2].args[1][1].selectedElement = node.position
        /\ emitted[2].args[1][1].propertyQuery.type \in {"All", "Specified"}
        /\ \A k \in DOMAIN emitted :
               k > 2 => emitted[k].topic \in {"removeHydrationOverlay",
                                               "createHydrationOverlay"}

requestedType(node, success) ==
    selectionEmitted(node, success)[2].args[1][1].propertyQuery.type

\* refresh() with no clicked element asks for the view with no query.
refreshWithoutClickedElement ==
    explorer.clickedElement = Null =>
        \A success \in BOOLEAN :
            LET emitted == refresh(handling(explorer), success).emitted
            IN  /\ viewRequested(emitted, 1)
                /\ emitted[1].args[1] = Null

\* C28: handleNodeSelection(node) emits 'setSelectedComponent' with the
\* position of the node and then 'getLatestComponentExplorerView' with a
\* query for that position, whose property query is of type All unless the
\* node has the same component and the same directives as the currently
\* selected element; refresh() with no clicked element sends no query.
C28_SelectionQueriesAllUnlessSame ==
    Created =>
        /\ \A node \in Nodes, success \in BOOLEAN :
               /\ emitsSelectionThenRequest(node, success)
               /\ (\/ explorer.currentSelectedElement = Null
                   \/ ~equalDirectives(node, explorer.currentSelectedElement[1]))
                      => requestedType(node, success) = "All"
        /\ refreshWithoutClickedElement

\* C28, the order of the messages and the query of a refresh without a
\* clicked element.
C28_SelectionEmitsInOrder ==
    Created =>
        /\ \A node \in Nodes, success \in BOOLEAN :
               emitsSelectionThenRequest(node, success)
        /\ refreshWithoutClickedElement

\* C28, the type of the query as the code computes it: Specified exactly
\* when the component is the same and every directive of the currently
\* selected element is on the clicked node, which may have more.
C28_QueryAllUnlessSubset ==
    Created =>
        \A node \in Nodes, success \in BOOLEAN :
            requestedType(node, success) = "Specified"
                <=> /\ explorer.currentSelectedElement # Null
                    /\ node.component = explorer.currentSelectedElement[1].component
                    /\ directiveIds(explorer.currentSelectedElement[1])
                           \subseteq directiveIds(node)

(************************ ChildrenOutletContexts ***************************)
(* packages/router/src/router_outlet_context.ts. contexts holds the heap:  *)
(* objects[k] is the k-th OutletContext ever constructed, maps[0] is the   *)
(* contexts Map of the root ChildrenOutletContexts and maps[k] that of     *)
(* objects[k].children; stored is a Map returned by onOutletDeactivated    *)
(* and kept by its caller, returned the context returned by the last call. *)
(***************************************************************************)
MaxContexts == 2

OutletNames == {"primary", "aux"}

Outlets == {"outlet1"}

ActivatedRoutes == {"route1"}

ComponentRefs == {"ref1"}

EmptyMap == [name \in {} |-> 0]

\* Map.set(key, value)
set(map, key, value) ==
    [k \in DOMAIN map \cup {key} |-> IF k = key THEN value ELSE map[k]]

\* new OutletContext(rootInjector), with its own ChildrenOutletContexts
OutletContext == [outlet |-> Null, route |-> Null, attachRef |-> Null]

InitContexts ==
    [objects |-> <<>>, maps |-> <<EmptyMap>>, stored |-> Null, returned |-> Null]

\* The Map of ChildrenOutletContexts self; maps is indexed from 1.
contextsOf(c, self) == c.maps[self + 1]

\* return this.contexts.get(childName) || null
getContext(c, self, childName) ==
    IF childName \in DOMAIN contextsOf(c, self)
    THEN Some(contextsOf(c, self)[childName]) ELSE Null

neverRegistered(context) == FALSE

\* if (!context)
registered(context) == context # Null

\* Returns the heap and the context.
getOrCreateContext(c, self, childName) ==
    LET context == getContext(c, self, childName)
    IN  IF ~registered(context)
        THEN LET created == Len(c.objects) + 1
             IN  [c |-> [c EXCEPT
                            !.objects = Append(@, OutletContext),
                            !.maps = Append([@ EXCEPT ![self + 1] =
                                                 set(@, childName, created)],
                                            EmptyMap)],
                  context |-> created]
        ELSE [c |-> c, context |-> context[1]]

onChildOutletCreated(c, self, childName, outlet) ==
    LET got == getOrCreateContext(c, self, childName)
    IN  [got.c EXCEPT !.objects[got.context].outlet = Some(outlet),
                      !.maps[self + 1] = set(@, childName, got.context)]

onChildOutletDestroyed(c, self, childName) ==
    LET context == getContext(c, self, childName)
    IN  IF context # Null
        THEN [c EXCEPT !.objects[context[1]].outlet = Null,
                       !.objects[context[1]].attachRef = Null]
        ELSE c

\* Returns the heap and the Map that was this.contexts.
\* The map is returned and the container keeps it.
onOutletDeactivatedKeepingContexts(c, self) ==
    [c |-> c, contexts |-> contextsOf(c, self)]

onOutletDeactivated(c, self) ==
    [c |-> [c EXCEPT !.maps[self + 1] = EmptyMap], contexts |-> contextsOf(c, self)]

onOutletReAttached(c, self, map) == [c EXCEPT !.maps[self + 1] = map]

Selves == 0 .. Len(contexts.objects)

InitOutlets ==
    /\ NoRuntime
    /\ parser = Null
    /\ explorer = Null
    /\ migration = Null
    /\ names = Null
    /\ contexts = InitContexts

Called(c) == contexts' = c /\ UNCHANGED <<runtimeVars, parser, explorer, migration, names>>

MayCreate(self, childName) ==
    \/ getContext(contexts, self, childName) # Null
    \/ Len(contexts.objects) < MaxContexts

OnChildOutletCreated ==
    /\ contexts # Null
    /\ \E self \in Selves, childName \in OutletNames, outlet \in Outlets :
           /\ MayCreate(self, childName)
           /\ Called([onChildOutletCreated(contexts, self, childName, outlet)
                         EXCEPT !.returned = Null])

OnChildOutletDestroyed ==
    /\ contexts # Null
    /\ \E self \in Selves, childName \in OutletNames :
           Called([onChildOutletDestroyed(contexts, self, childName)
                     EXCEPT !.returned = Null])

\* The caller keeps the returned Map (one at a time) for a later
\* onOutletReAttached of the same ChildrenOutletContexts.
OnOutletDeactivated ==
    /\ contexts # Null /\ contexts.stored = Null
    /\ \E self \in Selves :
           LET result == onOutletDeactivated(contexts, self)
           IN  Called([result.c EXCEPT
                         !.stored = Some([of |-> self, contexts |-> result.contexts]),
                         !.returned = Null])

OnOutletReAttached ==
    /\ contexts # Null /\ contexts.stored # Null
    /\ Called([onOutletReAttached(contexts, contexts.stored[1].of,
                                   contexts.stored[1].contexts)
                 EXCEPT !.stored = Null, !.returned = Null])

GetOrCreateContext ==
    /\ contexts # Null
    /\ \E self \in Selves, childName \in OutletNames :
           /\ MayCreate(self, childName)
           /\ LET got == getOrCreateContext(contexts, self, childName)
              IN  Called([got.c EXCEPT !.returned = Some(got.context)])

GetContext ==
    /\ contexts # Null
    /\ \E self \in Selves, childName \in OutletNames :
           Called([contexts EXCEPT !.returned = getContext(contexts, self, childName)])

\* The router activates a route in an outlet, or deactivates it: it writes
\* the public fields route and attachRef of the context.
ActivateWith ==
    /\ contexts # Null
    /\ \E k \in DOMAIN contexts.objects,
          activation \in {[route |-> Null, attachRef |-> Null]}
                          \cup {[route |-> Some(r), attachRef |-> Some(ref)] :
                                    r \in ActivatedRoutes, ref \in ComponentRefs} :
           Called([contexts EXCEPT !.objects[k].route = activation.route,
                                   !.objects[k].attachRef = activation.attachRef,
                                   !.returned = Null])

NextOutlets ==
    \/ OnChildOutletCreated
    \/ OnChildOutletDestroyed
    \/ OnOutletDeactivated
    \/ OnOutletReAttached
    \/ GetOrCreateContext
    \/ GetContext
    \/ ActivateWith

SpecOutlets == InitOutlets /\ [][NextOutlets]_vars

\* onChildOutletDestroyed(childName) of self changed nothing but the outlet
\* and the attachRef of the context registered under childName.
onlyOutletAndAttachRefCleared(after, self, childName) ==
    LET context == getContext(contexts, self, childName)
    IN  /\ after.maps = contexts.maps
        /\ after.stored = contexts.stored
        /\ DOMAIN after.objects = DOMAIN contexts.objects
        /\ \A k \in DOMAIN contexts.objects :
               after.objects[k] =
                   IF context = Some(k)
                   THEN [contexts.objects[k] EXCEPT !.outlet = Null, !.attachRef = Null]
                   ELSE contexts.objects[k]

\* After the destruction, getOrCreateContext and onChildOutletCreated find
\* the context that was registered and construct none.
sameContextAfterwards(after, self, childName) ==
    LET context == getContext(contexts, self, childName)
        got == getOrCreateContext(after, self, childName)
    IN  context # Null =>
            /\ got.context = context[1]
            /\ got.c = after
            /\ \A outlet \in Outlets :
                   onChildOutletCreated(after, self, childName, outlet)
                       = [after EXCEPT !.objects[context[1]].outlet = Some(outlet)]

\* The places where context k is registered, in the Maps in use and in the
\* stored one.
registrations(k) ==
    {<<self, name>> : self \in Selves, name \in OutletNames}
        \cap {place \in Selves \X OutletNames :
                 getContext(contexts, place[1], place[2]) = Some(k)}

storedRegistrations(k) ==
    IF contexts.stored = Null THEN {}
    ELSE {name \in DOMAIN contexts.stored[1].contexts :
             contexts.stored[1].contexts[name] = k}

\* C29: onChildOutletDestroyed(name) only sets the outlet and the attachRef
\* of the context registered under the name to null; the context stays
\* registered with its route and its children, so getOrCreateContext(name)
\* and onChildOutletCreated(name, outlet) afterwards use that very context;
\* every name has at most one context and no context is registered twice.
C29_ContextKeptAcrossDestruction ==
    contexts # Null =>
        /\ \A self \in Selves, childName \in OutletNames :
               LET after == onChildOutletDestroyed(contexts, self, childName)
               IN  /\ onlyOutletAndAttachRefCleared(after, self, childName)
                   /\ sameContextAfterwards(after, self, childName)
        /\ \A k \in DOMAIN contexts.objects :
               Cardinality(registrations(k)) + Cardinality(storedRegistrations(k)) <= 1
        /\ \A self \in Selves :
               \A childName \in DOMAIN contextsOf(contexts, self) :
                   contextsOf(contexts, self)[childName] \in DOMAIN contexts.objects

\* getOrCreateContext has just returned a context whose outlet was
\* destroyed: it still has its route and a child context.
C29_Witness ==
    /\ contexts # Null
    /\ contexts.returned # Null
    /\ contexts.objects[contexts.returned[1]].outlet = Null
    /\ contexts.objects[contexts.returned[1]].attachRef = Null
    /\ contexts.objects[contexts.returned[1]].route # Null
    /\ contextsOf(contexts, contexts.returned[1]) # EmptyMap
    /\ registrations(contexts.returned[1]) # {}

(********************* instances sharing one load *************************)
\* Several instances of one block, driven by their triggers, the prefetch
\* triggers and the load; no direct call of the exported functions.
NextShared ==
    \/ \E i \in DOMAIN inst : RenderPlaceholder(i)
    \/ \E i \in DOMAIN inst : TriggerDeferBlock(i)
    \/ \E i \in DOMAIN inst : DeferOnImmediate(i)
    \/ \E i \in DOMAIN inst : TriggerPrefetching(i)
    \/ \E i \in DOMAIN inst : DeferPrefetchOnImmediate(i)
    \/ LoadSettle
    \/ LoadingPromiseThen
    \/ \E i \in DOMAIN inst : DestroyView(i)

SpecShared == Init /\ [][NextShared]_vars

\* A regular trigger of instance i may fire and gets past the check.
mayTrigger(i) == Live(i) /\ shouldTriggerDeferBlock /\ Len(subs) < MaxSubs

\* The state the load's outcome asks the instances to render.
outcome == IF tDetails.loadingState = "COMPLETE" THEN Complete ELSE Error

hasTemplate(state) == getTemplateIndexForState(state) # Null

\* The instance shows the state: DEFER_BLOCK_STATE and the mounted view.
shows(L, state) ==
    /\ L.state = state
    /\ L.views = <<getTemplateIndexForState(state)[1]>>

\* The call rendered state for instance i, or, wantsTemplate being set and
\* the block having no template for the state, left the instance as it was.
showsAfter(w, i, state, wantsTemplate) ==
    IF wantsTemplate /\ ~hasTemplate(state)
    THEN Rendered(w.inst[i]) = Rendered(inst[i])
    ELSE hasTemplate(state) /\ shows(w.inst[i], state)

\* The only request of the call is the outcome: the world is that of one
\* renderDeferBlockState call after the trigger's cleanup.
onlyRequestsOutcome(w, i) ==
    w = renderDeferBlockState(
            invokeAllTriggerCleanupFns([World EXCEPT !.inst[i].triggered = TRUE], i),
            i, outcome, FALSE)

triggerOnSharedLoad(wantsTemplate) ==
    \A i \in DOMAIN inst :
        mayTrigger(i) =>
            LET w == triggerDeferBlock(World, i)
            IN  CASE tDetails.loadingState = "IN_PROGRESS" ->
                       /\ showsAfter(w, i, Loading, wantsTemplate)
                       /\ w.subs = Append(subs, i)
                       /\ w.loaderCalls = loaderCalls
                  [] tDetails.loadingState \in {"COMPLETE", "FAILED"} ->
                       /\ showsAfter(w, i, outcome, wantsTemplate)
                       /\ onlyRequestsOutcome(w, i)
                       /\ w.subs = subs
                       /\ w.loaderCalls = loaderCalls
                  [] OTHER -> TRUE

\* The load has settled and every reaction on its promise has run.
loadOver ==
    /\ tDetails.loadingState \in {"COMPLETE", "FAILED"}
    /\ subs = <<>>

liveTriggered == {i \in DOMAIN inst : Live(i) /\ inst[i].triggered}

\* C30 as stated: an instance triggered while the shared load is
\* IN_PROGRESS renders Loading and waits for the load, one triggered after
\* COMPLETE or FAILED renders Complete or Error at once, and when the load is
\* over all live triggered instances show the same terminal state.
C30_InstancesShareTheOutcome ==
    /\ triggerOnSharedLoad(FALSE)
    /\ loadOver => \A i \in liveTriggered : shows(inst[i], outcome)

\* C30 amended: the same, for the states that have a template; a state
\* without a template renders nothing, so that after a failed load of a block
\* without @error the live triggered instances show no terminal state.
C30_InstancesShareTheOutcomeWithTemplate ==
    /\ triggerOnSharedLoad(TRUE)
    /\ loadOver =>
           \A i \in liveTriggered :
               IF hasTemplate(outcome)
               THEN shows(inst[i], outcome)
               ELSE inst[i].state \in {Initial, Placeholder, Loading}

\* Both instances are live and were triggered, one while the load was in
\* progress, and the failed load has left both showing Error.
C30_Witness ==
    /\ loadOver
    /\ tDetails.loadingState = "FAILED"
    /\ liveTriggered = Instances
    /\ \A i \in Instances : shows(inst[i], Error)

(************************ claims on the defer runtime **********************)
\* Nothing that a trigger instruction registered is left on the instance.
nothingArmed(L) ==
    /\ L.listeners = {}
    /\ L.triggerCleanupFns = Null
    /\ L.prefetchCleanupFns = Null
    /\ ~L.onDestroy

\* C31: in every reachable state, a regular trigger that fires for an
\* instance while triggering is allowed leaves no listener or scheduled
\* callback registered for that instance, no stored regular or prefetch cleanup
\* function and no view-destroy hook, whatever it renders or loads; without
\* the permission it changes nothing.
C31_TriggerDisarmsEveryTrigger ==
    \A i \in DOMAIN inst :
        Len(subs) < MaxSubs =>
            LET w == triggerDeferBlock(World, i)
            IN  IF shouldTriggerDeferBlock
                THEN /\ nothingArmed(w.inst[i])
                     /\ w.inst[i].triggered
                ELSE w = World

\* The instance was triggered by its hover listener after `on timer`,
\* `prefetch on timer` and `prefetch on hover` had registered theirs, and
\* nothing is armed any more.
C31_Witness ==
    \E i \in DOMAIN inst :
        /\ Live(i)
        /\ inst[i].triggered
        /\ Listeners \subseteq inst[i].ran
        /\ nothingArmed(inst[i])
        /\ inst[i].state >= Loading

\* C32: in every reachable state the container of every instance holds no
\* view while the instance is in its initial state, and otherwise exactly one
\* view, that of the sub-template of the rendered state.
C32_OneViewOfTheRenderedState ==
    \A i \in DOMAIN inst :
        IF inst[i].state = Initial
        THEN inst[i].views = <<>>
        ELSE /\ hasTemplate(inst[i].state)
             /\ inst[i].views = <<getTemplateIndexForState(inst[i].state)[1]>>

\* The Error template is the one view of an instance that showed Loading
\* while the load was in progress.
C32_Witness ==
    \E i \in DOMAIN inst :
        /\ inst[i].triggered
        /\ cfg.loadingTmplIndex # Null
        /\ cfg.placeholderTmplIndex # Null
        /\ tDetails.loadingState = "FAILED"
        /\ inst[i].state = Error
        /\ inst[i].views = <<"error">>

\* One instance of a block of any configuration on any platform, with
\* `on immediate` and the prefetch triggers, the load, the clock and the
\* timers.
InitImmediate == InitWith(Configs, {1})

NextImmediate ==
    \/ \E i \in DOMAIN inst : DeferOnImmediate(i)
    \/ \E i \in DOMAIN inst : TriggerPrefetching(i)
    \/ \E i \in DOMAIN inst : DeferPrefetchOnImmediate(i)
    \/ LoadSettle
    \/ LoadingPromiseThen
    \/ Tick
    \/ TimerFire
    \/ \E i \in DOMAIN inst : DestroyView(i)

SpecImmediate == InitImmediate /\ [][NextImmediate]_vars

\* The block is triggered and has a loading template.
triggeredWithLoadingTemplate ==
    shouldTriggerDeferBlock /\ cfg.loadingTmplIndex # Null

\* An instance nothing was asked of yet.
fresh(i) ==
    /\ Live(i)
    /\ inst[i].state = Initial
    /\ inst[i].requested = Initial
    /\ inst[i].next = Null

\* Loading is what the instance shows or, behind an `after` delay, what it
\* will show when the timer armed for it fires; it shows nothing before.
straightToLoading(w, i) ==
    IF getLoadingBlockAfter = Null
    THEN shows(w.inst[i], Loading)
    ELSE /\ w.inst[i].state = Initial /\ w.inst[i].views = <<>>
         /\ w.inst[i].next = Some(Loading)
         /\ w.inst[i].loadingAfterCleanupFn # Null
         /\ Len(w.timers) = Len(timers) + 1

neverPlaceholder(L) ==
    /\ L.state # Placeholder
    /\ L.next # Some(Placeholder)
    /\ L.views # <<"placeholder">>

\* What `on immediate` does to a fresh instance of a block that is triggered
\* and has a loading template; a settled load that failed shows Error, with
\* needsTemplate only when the block has an error template.
immediateWithLoadingTemplate(needsTemplate) ==
    \A i \in DOMAIN inst :
        (fresh(i) /\ Len(subs) < MaxSubs /\ triggeredWithLoadingTemplate) =>
            LET w == deferOnImmediate(World, i)
            IN  /\ neverPlaceholder(w.inst[i])
                /\ CASE tDetails.loadingState \in {"NOT_STARTED", "IN_PROGRESS"} ->
                            straightToLoading(w, i)
                      [] tDetails.loadingState = "COMPLETE" ->
                            shows(w.inst[i], Complete)
                      [] tDetails.loadingState = "FAILED" ->
                            IF needsTemplate /\ ~hasTemplate(Error)
                            THEN Rendered(w.inst[i]) = Rendered(inst[i])
                            ELSE hasTemplate(Error) /\ shows(w.inst[i], Error)

\* `on immediate` on a fresh instance of a block that is not triggered or has
\* no loading template asks for the Placeholder first: it is shown whenever
\* the block has a placeholder template, unless the settled load has replaced
\* it at once.
immediateWithPlaceholder ==
    \A i \in DOMAIN inst :
        (fresh(i) /\ Len(subs) < MaxSubs /\ ~triggeredWithLoadingTemplate) =>
            LET w == deferOnImmediate(World, i)
            IN  /\ w.inst[i].requested >= Placeholder
                /\ ~shouldTriggerDeferBlock => w = renderPlaceholder(World, i)
                /\ hasTemplate(Placeholder) =>
                       \/ shows(w.inst[i], Placeholder)
                       \/ /\ tDetails.loadingState \in {"COMPLETE", "FAILED"}
                          /\ w.inst[i].state = outcome
                          /\ cfg.placeholderMinimum = Null

\* C33 as stated: `on immediate` renders the Placeholder first only when the
\* block is not triggered or has no loading template; otherwise it never
\* renders the Placeholder and the fresh instance goes straight to Loading,
\* or to Complete or Error when the load has settled.
C33_ImmediateSkipsPlaceholder ==
    /\ immediateWithLoadingTemplate(FALSE)
    /\ immediateWithPlaceholder

\* C33 amended: the same, a failed load showing Error only when the block has
\* an error template and leaving the instance as it is otherwise.
C33_ImmediateSkipsPlaceholderWithTemplate ==
    /\ immediateWithLoadingTemplate(TRUE)
    /\ immediateWithPlaceholder

\* A triggered instance of a block with placeholder and loading templates and
\* an `after` delay shows nothing yet: Loading waits for its timer.
C33_Witness ==
    \E i \in DOMAIN inst :
        /\ Live(i) /\ inst[i].triggered
        /\ cfg.placeholderTmplIndex # Null
        /\ cfg.loadingAfter # Null
        /\ inst[i].state = Initial
        /\ inst[i].next = Some(Loading)
        /\ inst[i].requested = Loading
        /\ tDetails.loadingState = "IN_PROGRESS"

\* Time passes while a timer is pending, up to its invokeAt:
\* Date.now() is read only to arm a timer and to compare with the end of a
\* freeze, which has a pending timer.
TimePasses ==
    /\ timers # <<>>
    /\ now < Head(timers).at
    /\ now' = now + 1
    /\ UNCHANGED <<cfg, inst, tDetails, registry, timers, inflight, subs,
                   pendingTasks, taskCtr, loaderCalls, errors, ret>>
    /\ UNCHANGED otherVars

\* One instance of a block of any template and timer configuration in a
\* browser, driven by its triggers only and never destroyed. The dependency
\* promises settle, the reactions on the loading promise run, time passes and
\* due timers fire.
NextLive ==
    \/ \E i \in DOMAIN inst : RenderPlaceholder(i)
    \/ \E i \in DOMAIN inst : TriggerDeferBlock(i)
    \/ \E i \in DOMAIN inst : TriggerPrefetching(i)
    \/ LoadSettle
    \/ LoadingPromiseThen
    \/ TimePasses
    \/ TimerFire

Fairness ==
    /\ WF_vars(LoadSettle)
    /\ WF_vars(LoadingPromiseThen)
    /\ WF_vars(TimePasses)
    /\ WF_vars(TimerFire)

\* The instances of the block in SpecLive.
InstancesLive == {1}

InitLive == InitWith(ConfigsInBrowser, InstancesLive)

SpecLive == InitLive /\ [][NextLive]_vars /\ Fairness

\* The trigger of instance i has fired.
triggerFired(i) == i \in DOMAIN inst /\ inst[i].triggered

\* The instance is destroyed or shows the outcome of the load: Complete when
\* it is COMPLETE, Error when it is FAILED and the block has an error template.
rendersOutcome(i) ==
    /\ i \in DOMAIN inst
    /\ \/ inst[i].destroyed
       \/ /\ tDetails.loadingState = "COMPLETE"
          /\ shows(inst[i], Complete)
       \/ /\ tDetails.loadingState = "FAILED"
          /\ hasTemplate(Error) => shows(inst[i], Error)

\* State s is buffered for instance i, which is frozen.
bufferedInFreeze(i, s) ==
    /\ i \in DOMAIN inst
    /\ inst[i].frozenUntil # Null
    /\ inst[i].next = Some(s)

\* The instance is destroyed or has rendered s or a later state.
renderedSince(i, s) ==
    i \in DOMAIN inst /\ (inst[i].destroyed \/ inst[i].state >= s)

\* The load has failed and the block has no error template.
noErrorToShow == tDetails.loadingState = "FAILED" /\ ~hasTemplate(Error)

\* C34 as stated: a triggered instance in a browser eventually renders
\* Complete, or Error when the block has an error template, and a request
\* buffered during a freeze is eventually rendered (or a later state is).
C34_TriggeredEventuallySettles ==
    /\ \A i \in InstancesLive : triggerFired(i) ~> rendersOutcome(i)
    /\ \A i \in InstancesLive, s \in DeferBlockStates :
           bufferedInFreeze(i, s) ~> renderedSince(i, s)

\* C34 amended: the same, except that what is buffered during a freeze is
\* not rendered when the load fails in a block without error template.
C34_TriggeredEventuallySettlesOrFails ==
    /\ \A i \in InstancesLive : triggerFired(i) ~> rendersOutcome(i)
    /\ \A i \in InstancesLive, s \in DeferBlockStates :
           bufferedInFreeze(i, s) ~> (renderedSince(i, s) \/ noErrorToShow)

\* A triggered live instance of a block with `after` and `minimum` shows
\* Complete after its timers have run.
C34_Witness ==
    \E i \in DOMAIN inst :
        /\ Live(i) /\ inst[i].triggered
        /\ cfg.loadingMinimum # Null /\ cfg.loadingAfter # Null
        /\ now >= LoadingAfter + LoadingMinimum
        /\ timers = <<>>
        /\ inst[i].next = Null
        /\ shows(inst[i], Complete)

\* What the instance shows: DEFER_BLOCK_STATE and the mounted views.
shown(L) == <<L.state, L.views>>

\* C35: a request for a state that has no template changes neither the
\* rendered state nor the mounted view, whether it is made directly, by the
\* timer callback delivering a buffered state or by the reaction to a failed
\* load in a block without error template.
C35_NoTemplateNoChange ==
    \A i \in DOMAIN inst :
        /\ \A s \in DeferBlockStates, skip \in BOOLEAN :
               ~hasTemplate(s) =>
                   shown(renderDeferBlockState(World, i, s, skip).inst[i]) = shown(inst[i])
        /\ (inst[i].next # Null /\ ~hasTemplate(inst[i].next[1])) =>
               shown(deferBlockUpdateCallback(World, i).inst[i]) = shown(inst[i])
        /\ (tDetails.loadingState = "FAILED" /\ ~hasTemplate(Error)) =>
               shown(afterResourceLoading(World, i).inst[i]) = shown(inst[i])

\* The load has failed, the block has no error template, the reaction has
\* run and the instance still shows Loading.
C35_Witness ==
    \E i \in DOMAIN inst :
        /\ Live(i)
        /\ tDetails.loadingState = "FAILED"
        /\ ~hasTemplate(Error)
        /\ inst[i].requested = Error
        /\ subs = <<>>
        /\ shows(inst[i], Loading)

\* One instance of a block of any template and timer configuration in a
\* browser, triggered by its `when` and `prefetch when` bindings, whose value
\* change detection finds toggled any number of times, with the load, the
\* clock, the timers and the destruction of the view.
NextWhen ==
    \/ \E i \in DOMAIN inst, rawValue \in {"true", "false"} :
           DeferWhen(i, rawValue)
    \/ \E i \in DOMAIN inst, rawValue \in {"true", "false"} :
           DeferPrefetchWhen(i, rawValue)
    \/ LoadSettle
    \/ LoadingPromiseThen
    \/ Tick
    \/ TimerFire
    \/ \E i \in DOMAIN inst : DestroyView(i)

SpecWhen == InitSched /\ [][NextWhen]_vars

\* A Loading request of the live instance is buffered behind the `after`
\* delay.
loadingBehindAfter(i) ==
    /\ Live(i)
    /\ inst[i].next = Some(Loading)
    /\ loadingAfterTimerPending(World, i)

\* The repeated trigger armed no timer and did not invoke the loader. While
\* the load is in progress it changed nothing of what the instance renders
\* or has buffered; once the load has settled it mounted at most the outcome,
\* which the reaction still queued on the loading promise does not mount again.
nothingRepeated(w, i) ==
    /\ {w.timers[k] : k \in 1..Len(w.timers)} \subseteq {timers[k] : k \in 1..Len(timers)}
    /\ w.loaderCalls = loaderCalls
    /\ w.inflight = inflight
    /\ IF tDetails.loadingState = "IN_PROGRESS"
       THEN Rendered(w.inst[i]) = Rendered(inst[i]) /\ w.timers = timers
       ELSE \/ shown(w.inst[i]) = shown(inst[i])
            \/ /\ shows(w.inst[i], outcome)
               /\ inst[i].state < outcome
               /\ Rendered(afterResourceLoading(w, i).inst[i]) = Rendered(w.inst[i])

\* The call arms no loading-after timer.
armsNoLoadingAfterTimer(w, i) ==
    w.inst[i].loadingAfterCleanupFn \in {Null, inst[i].loadingAfterCleanupFn}

\* C36: while a Loading request is buffered behind the `after` delay a
\* repeated trigger, direct or from a toggled `when` value, arms no timer,
\* does not invoke the loader and mounts nothing; and while the loading-after
\* timer is pending no trigger and no timer callback arms another one.
C36_OneLoadingAfterTimer ==
    \A i \in DOMAIN inst :
        /\ (loadingBehindAfter(i) /\ Len(subs) < MaxSubs) =>
               /\ nothingRepeated(triggerDeferBlock(World, i), i)
               /\ \A rawValue \in {"true", "false"} :
                      nothingRepeated(deferWhen(World, i, rawValue), i)
        /\ (loadingAfterTimerPending(World, i) /\ Len(subs) < MaxSubs) =>
               /\ armsNoLoadingAfterTimer(triggerDeferBlock(World, i), i)
               /\ \A rawValue \in {"true", "false"} :
                      armsNoLoadingAfterTimer(deferWhen(World, i, rawValue), i)
               /\ armsNoLoadingAfterTimer(
                      deferBlockUpdateCallback(
                          [World EXCEPT !.timers = Tail(@)], Head(timers).inst), i)

\* The `when` value is true for the second time while the instance shows
\* Placeholder and Loading waits behind the `after` delay; the load was
\* started once.
C36_Witness ==
    \E i \in DOMAIN inst :
        /\ loadingBehindAfter(i)
        /\ inst[i].state = Placeholder
        /\ inst[i].whenBinding = "true"
        /\ Len(subs) = 2
        /\ loaderCalls = 1
        /\ Len(timers) = 1

(**************** claims on the children outlet contexts ******************)
\* C38: onOutletDeactivated returns the map of all the container's contexts
\* and leaves the container empty, touching nothing else; onOutletReAttached
\* with the returned map restores the container, so that the two calls one
\* after the other change nothing; and a map returned earlier is restored
\* exactly whatever the container has registered since.
C38_DeactivateThenReAttachIsIdentity ==
    /\ \A self \in Selves :
           LET result == onOutletDeactivated(contexts, self)
           IN  /\ result.contexts = contextsOf(contexts, self)
               /\ \A childName \in OutletNames :
                      getContext(result.c, self, childName) = Null
               /\ result.c.objects = contexts.objects
               /\ \A other \in Selves \ {self} :
                      contextsOf(result.c, other) = contextsOf(contexts, other)
               /\ onOutletReAttached(result.c, self, result.contexts) = contexts
    /\ contexts.stored # Null =>
           LET self == contexts.stored[1].of
               map == contexts.stored[1].contexts
               c == onOutletReAttached(contexts, self, map)
           IN  /\ contextsOf(c, self) = map
               /\ \A childName \in OutletNames :
                      getContext(c, self, childName) =
                          IF childName \in DOMAIN map THEN Some(map[childName]) ELSE Null
               /\ c.objects = contexts.objects

\* A container was deactivated with a context registered: the returned map
\* holds it and the container, which has registered a new context since,
\* does not.
C38_Witness ==
    /\ contexts.stored # Null
    /\ DOMAIN contexts.stored[1].contexts # {}
    /\ DOMAIN contextsOf(contexts, contexts.stored[1].of) # {}
    /\ contextsOf(contexts, contexts.stored[1].of) # contexts.stored[1].contexts

(************ claims on the refresh of the directive explorer *************)
\* C37: whenever the last 'getLatestComponentExplorerView' emit was throttled
\* exactly one retry timer is pending, after a successful emit none is, and
\* there is never more than one.
C37_RetryPendingWhileThrottled ==
    Created =>
        /\ explorer.throttled => Cardinality(explorer.retryTimers) = 1
        /\ ~explorer.throttled => explorer.retryTimers = {}
        /\ Cardinality(explorer.retryTimers) <= 1

(*************************** OutputMigration *******************************)
MaxUnits == 2           \* programs (compilation units) of one migration run

OutputIDs == {"a.ts@Cmp.changed", "b.ts@Dir.closed"}

\* A JavaScript object with string keys: its entries <<key, value>> in
\* insertion order, which is the order of Object.entries.
hasProperty(object, key) == \E k \in 1..Len(object) : object[k][1] = key

property(object, key) ==
    object[CHOOSE k \in 1..Len(object) : object[k][1] = key][2]

assign(object, key, value) ==
    IF hasProperty(object, key)
    THEN [k \in 1..Len(object) |->
              IF object[k][1] = key THEN <<key, value>> ELSE object[k]]
    ELSE Append(object, <<key, value>>)

keys(object) == {object[k][1] : k \in 1..Len(object)}

\* Sequences of distinct output ids: the keys of sourceOutputs and the set
\* problematicReferencedOutputs, in their iteration order.
DistinctIDs ==
    {<<>>} \cup {<<id>> : id \in OutputIDs}
           \cup {ids \in OutputIDs \X OutputIDs : ids[1] # ids[2]}

\* What findOutputDeclarationsAndReferences finds in a program; an output
\* used problematically may be declared in this or in another program.
ProgramInfos ==
    [sourceOutputs : DistinctIDs, problematicReferencedOutputs : DistinctIDs]

analyze(info) ==
    LET declared[n \in 0..Len(info.sourceOutputs)] ==
            IF n = 0 THEN <<>>
            ELSE assign(declared[n - 1], info.sourceOutputs[n],
                        [seenProblematicUsage |-> FALSE])
        discoveredOutputs[n \in 0..Len(info.problematicReferencedOutputs)] ==
            IF n = 0 THEN declared[Len(info.sourceOutputs)]
            ELSE assign(discoveredOutputs[n - 1],
                        info.problematicReferencedOutputs[n],
                        [seenProblematicUsage |-> TRUE])
    IN  discoveredOutputs[Len(info.problematicReferencedOutputs)]

\* The first unit that names an output decides.
mergeFirstUnitOnly(merged, id, info) ==
    IF ~hasProperty(merged, id)
    THEN assign(merged, id, [canBeMigrated |-> info.seenProblematicUsage = FALSE])
    ELSE merged

\* The body of the inner loop of merge.
mergeInfo(merged, id, info) ==
    IF ~hasProperty(merged, id)
    THEN assign(merged, id, [canBeMigrated |-> info.seenProblematicUsage = FALSE])
    ELSE IF property(merged, id).canBeMigrated /\ info.seenProblematicUsage
    THEN assign(merged, id, [canBeMigrated |-> FALSE])
    ELSE merged

merge(data) ==
    LET entries[u \in 0..Len(data)] ==
            IF u = 0 THEN <<>> ELSE entries[u - 1] \o data[u]
        all == entries[Len(data)]
        merged[n \in 0..Len(all)] ==
            IF n = 0 THEN <<>>
            ELSE mergeInfo(merged[n - 1], all[n][1], all[n][2])
    IN  merged[Len(all)]

\* A replacement is known by the output whose declaration it is inserted at;
\* reading canBeMigrated of an id the metadata does not have throws.
migrate(globalAnalysisData, info) ==
    LET replacements[n \in 0..Len(info.sourceOutputs)] ==
            IF n = 0 THEN [threw |-> FALSE, replacements |-> <<>>]
            ELSE LET id == info.sourceOutputs[n]
                     before == replacements[n - 1]
                 IN  IF before.threw THEN before
                     ELSE IF ~hasProperty(globalAnalysisData, id)
                     THEN [before EXCEPT !.threw = TRUE]
                     ELSE IF property(globalAnalysisData, id).canBeMigrated = FALSE
                     THEN before
                     ELSE [before EXCEPT !.replacements = Append(@, id)]
    IN  replacements[Len(info.sourceOutputs)]

\* The orders in which the units of the run can be handed to merge.
Orders(n) ==
    {order \in [1..n -> 1..n] : \A j, k \in 1..n : j # k => order[j] # order[k]}

inOrder(units, order) == [k \in 1..Len(units) |-> units[order[k]]]

InitMigration ==
    /\ NoRuntime
    /\ parser = Null
    /\ explorer = Null
    /\ contexts = Null
    /\ names = Null
    /\ migration = [programs |-> <<>>, units |-> <<>>, merged |-> Null,
                    migrated |-> Null]

Migrated(m) ==
    migration' = m /\ UNCHANGED <<runtimeVars, parser, explorer, contexts, names>>

\* The run analyzes a program.
Analyze ==
    /\ migration # Null /\ migration.merged = Null
    /\ Len(migration.programs) < MaxUnits
    /\ \E info \in ProgramInfos :
           Migrated([migration EXCEPT !.programs = Append(@, info),
                                      !.units = Append(@, analyze(info))])

\* The units of all programs are merged, in any order.
Merge ==
    /\ migration # Null /\ migration.merged = Null
    /\ migration.units # <<>>
    /\ \E order \in Orders(Len(migration.units)) :
           Migrated([migration EXCEPT
                       !.merged = Some(merge(inOrder(migration.units, order)))])

\* One of the programs is migrated with the merged metadata.
Migrate ==
    /\ migration # Null /\ migration.merged # Null
    /\ \E k \in 1..Len(migration.programs) :
           Migrated([migration EXCEPT
                       !.migrated = Some([program |-> k,
                                          result |-> migrate(migration.merged[1],
                                                             migration.programs[k])])])

NextMigration ==
    \/ Analyze
    \/ Merge
    \/ Migrate

SpecMigration == InitMigration /\ [][NextMigration]_vars

(************************ claims on OutputMigration ************************)
\* Some unit names the output and no unit has seen a problematic usage of it.
migratable(units, id) ==
    /\ \E u \in 1..Len(units) : hasProperty(units[u], id)
    /\ \A u \in 1..Len(units) :
           hasProperty(units[u], id) => ~property(units[u], id).seenProblematicUsage

\* The object as a mapping, whatever the order of its entries.
entriesOf(object) == {object[k] : k \in 1..Len(object)}

\* The source outputs of the program that can be migrated, in their order.
migratableOutputs(merged, info) ==
    SelectSeq(info.sourceOutputs,
              LAMBDA id : hasProperty(merged, id) /\ property(merged, id).canBeMigrated)

\* C39: merge marks an output canBeMigrated exactly when a unit names it and
\* no unit has seen a problematic usage of it, the merged metadata has
\* exactly the outputs of the units and is the same for every order of the
\* units, and migrate emits a replacement exactly for the program's source
\* outputs marked canBeMigrated.
C39_MergeAndMigrate ==
    migration # Null =>
        LET units == migration.units IN
        \A order \in Orders(Len(units)) :
            LET merged == merge(inOrder(units, order))
            IN  /\ keys(merged) = UNION {keys(units[u]) : u \in 1..Len(units)}
                /\ Cardinality(keys(merged)) = Len(merged)
                /\ \A id \in OutputIDs :
                       (hasProperty(merged, id) /\ property(merged, id).canBeMigrated)
                           <=> migratable(units, id)
                /\ entriesOf(merged) = entriesOf(merge(units))
                /\ \A k \in 1..Len(migration.programs) :
                       migrate(merged, migration.programs[k]) =
                           [threw |-> FALSE,
                            replacements |->
                                migratableOutputs(merged, migration.programs[k])]

\* A program was migrated whose two outputs are declared in another program
\* too; one of them has a problematic usage only there and got no
\* replacement, the other one got one.
C39_Witness ==
    /\ migration # Null /\ migration.migrated # Null
    /\ LET info == migration.programs[migration.migrated[1].program]
           result == migration.migrated[1].result
       IN  /\ Len(info.sourceOutputs) = 2
           /\ info.problematicReferencedOutputs = <<>>
           /\ ~result.threw
           /\ Len(result.replacements) = 1
           /\ Len(migration.units) = 2

(************************* UniqueNamesGenerator ****************************)
MaxGenerated == 3       \* generate calls at the location

\* List of potential suffixes to avoid conflicts.
fallbackSuffixes == <<"Value", "Val", "Input">>

Bases == {"x", "xValue"}

\* The scope of the location: the locals of its closest locals container and
\* of the container around it. `locals` is optional (`locals?.set`): a
\* container without declarations has none.
LocalNames == {"x", "xValue", "xVal", "xInput", "x_1", "xValueValue"}

OuterNames == {"x", "xValue"}

Scopes ==
    [locals : {Null} \cup {Some(l) : l \in SUBSET LocalNames},
     outer : {Null} \cup {Some(l) : l \in SUBSET OuterNames}]

declares(locals, name) == locals # Null /\ name \in locals[1]

\* Some container of the scope declares the name: null; otherwise the
\* container of the location.
isIdentifierFreeInScope(scope, name) ==
    IF declares(scope.locals, name) \/ declares(scope.outer, name)
    THEN Null ELSE Some("container")

\* freeInfo.container.locals?.set(name, null! as ts.Symbol)
claim(scope, name) ==
    IF scope.locals # Null
    THEN [scope EXCEPT !.locals = Some(@[1] \cup {name})]
    ELSE scope

\* Returns whether the name was available, and the scope afterwards.
checkNameAndClaimIfAvailable(scope, name) ==
    LET freeInfo == isIdentifierFreeInScope(scope, name)
    IN  IF freeInfo = Null
        THEN [available |-> FALSE, scope |-> scope]
        ELSE [available |-> TRUE, scope |-> claim(scope, name)]

\* The names in the scope, which bound the counter of the last loop.
declared(scope) ==
    (IF scope.locals # Null THEN scope.locals[1] ELSE {})
        \cup (IF scope.outer # Null THEN scope.outer[1] ELSE {})

\* Returns the name and the scope afterwards.
generate(scope, base) ==
    LET numbered[counter \in 1..(Cardinality(declared(scope)) + 1)] ==
            LET name == base \o "_" \o ToString(counter)
                checked == checkNameAndClaimIfAvailable(scope, name)
            IN  IF checked.available
                THEN [name |-> name, scope |-> checked.scope]
                ELSE numbered[counter + 1]
        suffixed[k \in 1..(Len(fallbackSuffixes) + 1)] ==
            IF k > Len(fallbackSuffixes) THEN numbered[1]
            ELSE LET name == base \o fallbackSuffixes[k]
                     checked == checkNameAndClaimIfAvailable(scope, name)
                 IN  IF checked.available
                     THEN [name |-> name, scope |-> checked.scope]
                     ELSE suffixed[k + 1]
        checkedBase == checkNameAndClaimIfAvailable(scope, base)
    IN  IF checkedBase.available
        THEN [name |-> base, scope |-> checkedBase.scope]
        ELSE suffixed[1]

InitNames ==
    /\ NoRuntime
    /\ parser = Null
    /\ explorer = Null
    /\ contexts = Null
    /\ migration = Null
    /\ \E scope \in Scopes : names = [scope |-> scope, generated |-> <<>>]

Generate ==
    /\ names # Null
    /\ Len(names.generated) < MaxGenerated
    /\ \E base \in Bases :
           LET result == generate(names.scope, base)
           IN  /\ names' = [scope |-> result.scope,
                            generated |-> Append(names.generated, result.name)]
               /\ UNCHANGED <<runtimeVars, parser, explorer, contexts, migration>>

NextNames == Generate

SpecNames == InitNames /\ [][NextNames]_vars

(********************* claims on UniqueNamesGenerator **********************)
\* The names generate tries for the base, in order, as far as the scope can
\* make it go.
candidates(scope, base) ==
    <<base>> \o [k \in 1..Len(fallbackSuffixes) |-> base \o fallbackSuffixes[k]]
             \o [counter \in 1..(Cardinality(declared(scope)) + 1) |->
                     base \o "_" \o ToString(counter)]

firstFree(scope, base) ==
    LET tried == candidates(scope, base)
    IN  tried[CHOOSE k \in 1..Len(tried) :
                  /\ isIdentifierFreeInScope(scope, tried[k]) # Null
                  /\ \A j \in 1..(k - 1) : isIdentifierFreeInScope(scope, tried[j]) = Null]

\* C40: generate returns the first free name among base, baseValue, baseVal,
\* baseInput, base_1, base_2, ...; the name is claimed in the scope, so a
\* second call with the same base returns another name.
C40_GeneratedNamesAreUnique ==
    names # Null =>
        \A base \in Bases :
            LET first == generate(names.scope, base)
                second == generate(first.scope, base)
            IN  /\ first.name = firstFree(names.scope, base)
                /\ isIdentifierFreeInScope(first.scope, first.name) = Null
                /\ second.name # first.name

====
